---- MODULE Spec2Model ----
(***************************************************************************)
(* State-machine model of the tower-defense engine in src/src/game.js:     *)
(* the session record gameState, the timers started by startGame,          *)
(* startWave and checkWaveCompletion, and the handlers that mutate them    *)
(* (startGame, selectTower, handleCanvasClick, the timer callbacks,        *)
(* gameLoop/update, gameOver, resetGame).                                  *)
(*                                                                         *)
(* Numbers.  Lengths are integers in tenths of a canvas unit (U per unit), *)
(* the resolution of the enemy speeds 0.7 and 0.5; square roots are        *)
(* rounded down to that resolution.  Fire rates are in shots per 100 s and *)
(* the difficulty factor in hundredths.  Time is in milliseconds; the      *)
(* clock origin is moved with every frame so that Date.now() always reads  *)
(* Epoch and a lastShot stamp ages instead (all the code ever uses is the  *)
(* difference now - lastShot).                                             *)
(*                                                                         *)
(* Scheduling.  JavaScript runs every handler to completion, so each       *)
(* handler is one atomic action; frames, timer callbacks and user input    *)
(* interleave freely.                                                      *)
(*                                                                         *)
(* Presentation state (effects, angles, pulse phases, mouse position,      *)
(* audio) is not part of this model.                                       *)
(***************************************************************************)
EXTENDS Integers, Sequences, FiniteSets, TLC

(***************************************************************************)
(* Bounds of the model (not program constants).                            *)
(***************************************************************************)
\* The route is the source's path with every coordinate divided by PathDiv.
PathDiv == 20
\* Milliseconds of wall clock between two animation frames.
FrameMs == 500
\* Reading of Date.now(); at least the longest cooldown (sniper, 4000 ms).
Epoch == 4000
\* The spawn timer is only scheduled while fewer than MaxLive enemies live.
MaxLive == 1
\* Enemies are spawned only in the first PlayedSessions sessions.
PlayedSessions == 1
\* Number of resetGame calls explored.
MaxResets == 1
\* Number of towers the player places in one session.
MaxTowers == 1
\* The next-wave countdown is not let expire once the wave counter is MaxWave.
MaxWave == 2

(***************************************************************************)
(* Program constants.                                                      *)
(***************************************************************************)
U == 10
gridSize == 40
canvasWidth == 800
canvasHeight == 600
preparationTime == 5
startMoney == 75
startLives == 1
\* Delay of the bonus timeout, period and length of the next-wave countdown.
BonusDelayMs == 1000
CountdownPeriodMs == 1000
CountdownStart == 8

TowerKinds == {"basic", "cannon", "magic", "sniper", "bomber"}
EnemyKinds == {"basic", "fast", "strong", "boss"}

\* fireRate in shots per 100 s; criticalMultiplier and falloff in tenths.
towerTypes ==
  [ basic  |-> [cost |-> 25,  damage |-> 10, range |-> 120, fireRate |-> 100,
                barrelLength |-> 10, unlockWave |-> 1,
                criticalChance |-> 0, criticalMultiplier |-> 10,
                radius |-> 0, falloff |-> 0],
    cannon |-> [cost |-> 60,  damage |-> 30, range |-> 100, fireRate |-> 50,
                barrelLength |-> 14, unlockWave |-> 2,
                criticalChance |-> 0, criticalMultiplier |-> 10,
                radius |-> 0, falloff |-> 0],
    magic  |-> [cost |-> 100, damage |-> 15, range |-> 150, fireRate |-> 150,
                barrelLength |-> 8, unlockWave |-> 3,
                criticalChance |-> 0, criticalMultiplier |-> 10,
                radius |-> 0, falloff |-> 0],
    sniper |-> [cost |-> 150, damage |-> 80, range |-> 250, fireRate |-> 25,
                barrelLength |-> 18, unlockWave |-> 5,
                criticalChance |-> 2, criticalMultiplier |-> 25,
                radius |-> 0, falloff |-> 0],
    bomber |-> [cost |-> 200, damage |-> 50, range |-> 180, fireRate |-> 30,
                barrelLength |-> 12, unlockWave |-> 7,
                criticalChance |-> 0, criticalMultiplier |-> 10,
                radius |-> 60, falloff |-> 5] ]

\* speed in tenths of a unit per frame.
enemyTypes ==
  [ basic  |-> [health |-> 40,  speed |-> 10, reward |-> 10],
    fast   |-> [health |-> 25,  speed |-> 20, reward |-> 15],
    strong |-> [health |-> 100, speed |-> 7,  reward |-> 20],
    boss   |-> [health |-> 300, speed |-> 5,  reward |-> 50] ]

pathSource ==
  << [x |-> 0,   y |-> 120], [x |-> 200, y |-> 120], [x |-> 200, y |-> 280],
     [x |-> 400, y |-> 280], [x |-> 400, y |-> 120], [x |-> 600, y |-> 120],
     [x |-> 600, y |-> 400], [x |-> 800, y |-> 400] >>

\* path[k] is the source's path[k-1].
path == [k \in 1..Len(pathSource) |->
           [x |-> pathSource[k].x \div PathDiv, y |-> pathSource[k].y \div PathDiv]]

(***************************************************************************)
(* Arithmetic helpers.                                                     *)
(***************************************************************************)
Abs(a) == IF a < 0 THEN -a ELSE a
Max(a, b) == IF a > b THEN a ELSE b
Min(a, b) == IF a < b THEN a ELSE b

\* Quotient rounded toward zero (b > 0).
Quot(a, b) == IF a >= 0 THEN a \div b ELSE -((-a) \div b)

RECURSIVE SqrtSearch(_, _, _)
SqrtSearch(n, lo, hi) ==
  IF lo >= hi THEN lo
  ELSE LET mid == (lo + hi + 1) \div 2
       IN IF mid * mid <= n THEN SqrtSearch(n, mid, hi)
                            ELSE SqrtSearch(n, lo, mid - 1)

\* Math.sqrt rounded down to an integer.
Sqrt(n) == SqrtSearch(n, 0, 20000)

RECURSIVE GCD(_, _)
GCD(a, b) == IF b = 0 THEN a ELSE GCD(b, a % b)

\* Distance in tenths between two points given in tenths.
Dist(ax, ay, bx, by) == Sqrt((ax - bx) * (ax - bx) + (ay - by) * (ay - by))

Range(s) == {s[k] : k \in 1..Len(s)}

RemoveAt(s, k) == SubSeq(s, 1, k - 1) \o SubSeq(s, k + 1, Len(s))

(***************************************************************************)
(* State.                                                                  *)
(***************************************************************************)
VARIABLES
  gameState,           \* the gameState object
  prepIntervals,       \* pending preparation intervals of startGame
  bonusTimeouts,       \* pending bonus timeouts of checkWaveCompletion
  countdownIntervals,  \* pending next-wave intervals of checkWaveCompletion
  uiContainerShown,    \* display of #ui-container (the tower buttons)
  session,             \* history: number of resetGame and gameOver calls so far
  resets,              \* history: number of resetGame calls so far
  lastHandler          \* history: what ran last: "input" (a button), "click" (the
                       \* canvas), "gameLoop", "timer", or
                       \* "staleTimer" for the callback of a timer that was
                       \* started before the latest resetGame/gameOver

vars == << gameState, prepIntervals, bonusTimeouts, countdownIntervals,
           uiContainerShown, session, resets, lastHandler >>

\* gameState.enemySpawnInterval === null
NoInterval == [active |-> FALSE, enemiesSpawned |-> 0, enemyCount |-> 0,
               delay |-> 0, session |-> 0]

\* Whether a firing timer was started in the current session.
TimerKind(startedIn) == IF startedIn < session THEN "staleTimer" ELSE "timer"

\* tower.target / projectile.target === null
NoTarget == 0

\* An entry of the history of a frame: "breach", "target" (a tower acquires the
\* enemy), "sniper", "direct", "primary", "splash" (a hit of that amount) or
\* "defeat" (defeatEnemy is called).
Event(kind, id, amount) == [kind |-> kind, id |-> id, amount |-> amount]

(***************************************************************************)
(* updateUI / updateTowerAvailability: records newly unlocked kinds.       *)
(***************************************************************************)
updateUI(gs) ==
  [gs EXCEPT !.unlockedTowers =
     @ \cup {k \in TowerKinds : gs.wave >= towerTypes[k].unlockWave}]

(***************************************************************************)
(* Wave director.                                                          *)
(***************************************************************************)
\* floor(log10(n) * 50) for n = wave - 9 in 1..22; 67 beyond, which no wave of
\* the model reaches.
LogTerm(n) ==
  LET table == << 0, 15, 23, 30, 34, 38, 42, 45, 47, 50, 52,
                  53, 55, 57, 58, 60, 61, 62, 63, 65, 66, 67 >>
  IN IF n < 1 THEN 0 ELSE table[Min(n, Len(table))]

\* calculateWaveDifficulty: the factor in hundredths.
calculateWaveDifficulty(wave) ==
  100 + (wave - 1) * 15 + (IF wave > 10 THEN LogTerm(wave - 9) ELSE 0)

\* Math.floor(8 * (1 + (wave - 1) * 0.2))
EnemyCount(wave) == (8 * (10 + (wave - 1) * 2)) \div 10

\* The delay without its minimum.
SpawnIntervalMsNoFloor(wave) == 1200 - (wave - 1) * 50

\* Math.max(300, 1200 - (wave - 1) * 50)
SpawnIntervalMs(wave) == Max(300, 1200 - (wave - 1) * 50)

\* The body of selectEnemyTypeForWave without its wave % 5 branch.
enemyTypeOfRollNoBossWaves(wave, rand) ==
  IF wave <= 2 THEN "basic"
  ELSE IF wave <= 4 THEN (IF rand < 70 THEN "basic" ELSE "fast")
  ELSE IF wave <= 7
    THEN (IF rand < 50 THEN "basic" ELSE IF rand < 80 THEN "fast" ELSE "strong")
  ELSE (IF rand < 30 THEN "basic" ELSE IF rand < 60 THEN "fast"
        ELSE IF rand < 90 THEN "strong" ELSE "boss")

\* selectEnemyTypeForWave(wave) for the value rand of its Math.random(), in
\* hundredths.
enemyTypeOfRoll(wave, rand) ==
  IF wave % 5 = 0 THEN (IF rand < 30 THEN "boss" ELSE "strong")
  ELSE IF wave <= 2 THEN "basic"
  ELSE IF wave <= 4 THEN (IF rand < 70 THEN "basic" ELSE "fast")
  ELSE IF wave <= 7
    THEN (IF rand < 50 THEN "basic" ELSE IF rand < 80 THEN "fast" ELSE "strong")
  ELSE (IF rand < 30 THEN "basic" ELSE IF rand < 60 THEN "fast"
        ELSE IF rand < 90 THEN "strong" ELSE "boss")

\* selectEnemyTypeForWave: the kinds Math.random() in [0, 1) can select in the
\* wave.
selectEnemyTypeForWave(wave) == {enemyTypeOfRoll(wave, rand) : rand \in 0..99}

\* An object identity no live reference holds.
FreshId(gs) ==
  LET used == {gs.enemies[k].id : k \in 1..Len(gs.enemies)}
              \cup {gs.projectiles[k].target : k \in 1..Len(gs.projectiles)}
              \cup {gs.towers[k].target : k \in 1..Len(gs.towers)}
  IN CHOOSE n \in 1..(Cardinality(used) + 1) : n \notin used

\* The pairs << factor in hundredths, base health >> whose double-precision
\* product lies below its exact integer value, the factor being the double
\* that calculateWaveDifficulty computes (waves 1..11):
\* 100 * 1.15 = 114.99999999999999, 100 * 2.05 = 204.99999999999997,
\* 40 * 2.35 = 93.99999999999999, 100 * 2.35 = 234.99999999999997,
\* 300 * 2.35 = 704.9999999999999.
ScaledHealthBelow ==
  { <<115, 100>>, <<205, 100>>, <<235, 40>>, <<235, 100>>, <<235, 300>> }

\* Math.floor(health * gameState.difficultyFactor) in double precision.
ScaledHealth(health, factor) ==
  (health * factor) \div 100
    - (IF <<factor, health>> \in ScaledHealthBelow THEN 1 ELSE 0)

\* The pairs << wave, base reward >> whose double-precision product
\* reward * (1 + (wave - 1) * 0.1) lies above its exact integer value
\* (waves 1..11): 50 * 1.1 = 55.00000000000001 and
\* 50 * 1.7000000000000002 = 85.00000000000001.
ScaledRewardAbove == { <<2, 50>>, <<8, 50>> }

\* Math.ceil(reward * (1 + (gameState.wave - 1) * 0.1)) in double precision.
ScaledReward(reward, wave) ==
  (reward * (10 + (wave - 1)) + 9) \div 10
    + (IF <<wave, reward>> \in ScaledRewardAbove THEN 1 ELSE 0)

\* spawnEnemy(type)
spawnEnemy(gs, type) ==
  LET scaledHealth == ScaledHealth(enemyTypes[type].health, gs.difficultyFactor)
      enemy == [ id |-> FreshId(gs),
                 x |-> path[1].x * U, y |-> path[1].y * U,
                 type |-> type,
                 health |-> scaledHealth, maxHealth |-> scaledHealth,
                 speed |-> enemyTypes[type].speed,
                 reward |-> ScaledReward(enemyTypes[type].reward, gs.wave),
                 pathIndex |-> 0, progress |-> 0 ]
  IN [gs EXCEPT !.enemies = Append(@, enemy)]

\* startWave(): clears the spawn interval it holds and starts a new one.
startWave(gs, sess) ==
  LET g1 == [gs EXCEPT !.difficultyFactor = calculateWaveDifficulty(gs.wave)]
      g2 == [g1 EXCEPT !.waveCompleted = FALSE,
                       !.enemySpawnInterval =
                          [active |-> TRUE, enemiesSpawned |-> 0,
                           enemyCount |-> EnemyCount(gs.wave),
                           delay |-> SpawnIntervalMs(gs.wave), session |-> sess]]
  IN updateUI(g2)

(***************************************************************************)
(* Tower selection and placement.                                          *)
(***************************************************************************)
\* Number of sampling steps on segment k: Math.ceil(length / 10).
SegmentSteps(k) ==
  LET dx == path[k + 1].x - path[k].x
      dy == path[k + 1].y - path[k].y
      length == Sqrt((dx * dx + dy * dy) * U * U)
  IN (length + 10 * U - 1) \div (10 * U)

\* The sampled points of the path (in tenths), as isPositionValid walks them.
PathSamples ==
  UNION { { [x |-> path[k].x * U + Quot((path[k + 1].x - path[k].x) * j * U, SegmentSteps(k)),
             y |-> path[k].y * U + Quot((path[k + 1].y - path[k].y) * j * U, SegmentSteps(k))]
            : j \in 0..SegmentSteps(k) }
          : k \in 1..(Len(path) - 1) }

\* Fault variant of isPositionValid: the placed towers are not consulted.
isPositionValidIgnoringTowers(gs, x, y) ==
  /\ ~(x < 20 \/ y < 20 \/ x > canvasWidth - 20 \/ y > canvasHeight - 20)
  /\ \A p \in PathSamples :
        ~((p.x - x * U) * (p.x - x * U) + (p.y - y * U) * (p.y - y * U)
            < (30 * U) * (30 * U))

\* isPositionValid(x, y), x and y in canvas units.
isPositionValid(gs, x, y) ==
  /\ ~(x < 20 \/ y < 20 \/ x > canvasWidth - 20 \/ y > canvasHeight - 20)
  /\ \A k \in 1..Len(gs.towers) :
        ~(Abs(gs.towers[k].x - x) < gridSize /\ Abs(gs.towers[k].y - y) < gridSize)
  /\ \A p \in PathSamples :
        ~((p.x - x * U) * (p.x - x * U) + (p.y - y * U) * (p.y - y * U)
            < (30 * U) * (30 * U))

\* Fault variant of placeTower: the tower is inserted but its cost is not
\* deducted.
placeTowerFree(gs, x, y, towerType) ==
  LET towerData == towerTypes[towerType]
      tower == [ x |-> x, y |-> y, type |-> towerType, lastShot |-> 0,
                 target |-> NoTarget,
                 cost |-> towerData.cost, damage |-> towerData.damage,
                 range |-> towerData.range, fireRate |-> towerData.fireRate,
                 barrelLength |-> towerData.barrelLength,
                 criticalChance |-> towerData.criticalChance,
                 criticalMultiplier |-> towerData.criticalMultiplier,
                 radius |-> towerData.radius, falloff |-> towerData.falloff ]
  IN updateUI([gs EXCEPT !.towers = Append(@, tower)])

\* placeTower(x, y, towerType)
placeTower(gs, x, y, towerType) ==
  LET towerData == towerTypes[towerType]
      tower == [ x |-> x, y |-> y, type |-> towerType, lastShot |-> 0,
                 target |-> NoTarget,
                 cost |-> towerData.cost, damage |-> towerData.damage,
                 range |-> towerData.range, fireRate |-> towerData.fireRate,
                 barrelLength |-> towerData.barrelLength,
                 criticalChance |-> towerData.criticalChance,
                 criticalMultiplier |-> towerData.criticalMultiplier,
                 radius |-> towerData.radius, falloff |-> towerData.falloff ]
  IN updateUI([gs EXCEPT !.money = @ - tower.cost,
                         !.towers = Append(@, tower)])

\* Fault variant of selectTower: the kind becomes the pending selection
\* whether or not it is unlocked and affordable.
selectTowerUnchecked(gs, towerType) == [gs EXCEPT !.selectedTower = towerType]

\* Fault variant of selectTower: a rejected request clears the pending
\* selection.
selectTowerClearsOnReject(gs, towerType) ==
  LET towerData == towerTypes[towerType]
  IN IF gs.wave >= towerData.unlockWave /\ gs.money >= towerData.cost
     THEN [gs EXCEPT !.selectedTower = towerType]
     ELSE [gs EXCEPT !.selectedTower = "null"]

\* selectTower(towerType)
selectTower(gs, towerType) ==
  LET towerData == towerTypes[towerType]
      isUnlocked == gs.wave >= towerData.unlockWave
      isAffordable == gs.money >= towerData.cost
  IN IF isUnlocked /\ isAffordable
     THEN [gs EXCEPT !.selectedTower = towerType]
     ELSE gs

\* Fault variant of handleCanvasClick: the position is not validated.
handleCanvasClickAnywhere(gs, cx, cy) ==
  IF ~gs.isPlaying \/ gs.selectedTower = "null" THEN gs
  ELSE LET gridX == (cx \div gridSize) * gridSize
           gridY == (cy \div gridSize) * gridSize
       IN [placeTower(gs, gridX, gridY, gs.selectedTower)
             EXCEPT !.selectedTower = "null"]

\* handleCanvasClick(event), the click at canvas coordinates (cx, cy).
handleCanvasClick(gs, cx, cy) ==
  IF ~gs.isPlaying \/ gs.selectedTower = "null" THEN gs
  ELSE LET gridX == (cx \div gridSize) * gridSize
           gridY == (cy \div gridSize) * gridSize
       IN IF isPositionValid(gs, gridX, gridY)
          THEN [placeTower(gs, gridX, gridY, gs.selectedTower)
                  EXCEPT !.selectedTower = "null"]
          ELSE gs

\* Canvas clicks the player makes: on the route, next to it (a second click
\* there falls on the tower placed by the first), and off the playable area.
Clicks ==
  { [x |-> 45,  y |-> 50],
    [x |-> 90,  y |-> 50],
    [x |-> 10,  y |-> 100] }

(***************************************************************************)
(* The per-frame simulation step.                                          *)
(***************************************************************************)
\* Index of the enemy object `id` in the live list, 0 when it is not there
\* (gameState.enemies.includes(target)).
IndexOf(gs, id) ==
  IF \E k \in 1..Len(gs.enemies) : gs.enemies[k].id = id
  THEN CHOOSE k \in 1..Len(gs.enemies) : gs.enemies[k].id = id
  ELSE 0

\* Fault variant of gameOver: the towers are cleared with the end of the
\* session.
gameOverClearsTowers(gs) == [gs EXCEPT !.isPlaying = FALSE, !.towers = << >>]

\* Fault variant of gameOver: the session goes on.
gameOverKeepsPlaying(gs) == gs

\* gameOver(reason)
gameOver(gs) == [gs EXCEPT !.isPlaying = FALSE]

\* Fault variant of defeatEnemy: the reward is paid but the enemy stays in the
\* live list.
defeatEnemyKeeps(gs, id) ==
  LET k == IndexOf(gs, id)
  IN updateUI([gs EXCEPT !.money = @ + gs.enemies[k].reward,
                         !.defeatLog = Append(@, id),
                         !.tickLog = Append(@, Event("defeat", id, 0))])

\* defeatEnemy(enemy), for the enemy object `id` of the live list.
defeatEnemy(gs, id) ==
  LET k == IndexOf(gs, id)
  IN updateUI([gs EXCEPT !.money = @ + gs.enemies[k].reward,
                         !.enemies = RemoveAt(@, k),
                         !.defeatLog = Append(@, id),
                         !.tickLog = Append(@, Event("defeat", id, 0))])

\* Fault variant of the completion condition: waveStarted is not consulted.
CompletionDueIgnoringStart(gs) ==
  /\ ~gs.waveCompleted
  /\ Len(gs.enemies) = 0
  /\ ~gs.enemySpawnInterval.active

\* checkWaveCompletion: the condition under which it marks the wave completed.
CompletionDue(gs) ==
  /\ ~gs.waveCompleted
  /\ Len(gs.enemies) = 0
  /\ ~gs.enemySpawnInterval.active
  /\ gs.waveStarted

\* checkWaveCompletion(): its effect on gameState (its timers are started by
\* the frame action).
checkWaveCompletion(gs) ==
  IF CompletionDue(gs) THEN [gs EXCEPT !.waveCompleted = TRUE] ELSE gs

\* Fault variant of the bonus: computed from the wave that follows.
WaveBonusOfNextWave(wave) == 20 + (wave + 1) * 5

\* Math.floor(baseBonus + gameState.wave * 5)
WaveBonus(wave) == 20 + wave * 5

\* Length in tenths of the segment that starts at the source's path[pathIndex].
SegmentLength(pathIndex) ==
  LET dx == path[pathIndex + 2].x - path[pathIndex + 1].x
      dy == path[pathIndex + 2].y - path[pathIndex + 1].y
  IN Sqrt((dx * dx + dy * dy) * U * U)

\* One iteration of updateEnemies on a non-breaching enemy: progress, segment
\* change, and the interpolation along the segment the iteration started on.
AdvanceEnemy(enemy) ==
  LET cur == path[enemy.pathIndex + 1]
      nxt == path[enemy.pathIndex + 2]
      dx == nxt.x - cur.x
      dy == nxt.y - cur.y
      distance == SegmentLength(enemy.pathIndex)
      wraps == enemy.progress + enemy.speed >= distance
      progress == IF wraps THEN 0 ELSE enemy.progress + enemy.speed
  IN [enemy EXCEPT !.progress = progress,
                   !.pathIndex = IF wraps THEN @ + 1 ELSE @,
                   !.x = cur.x * U + Quot(dx * U * progress, distance),
                   !.y = cur.y * U + Quot(dy * U * progress, distance)]

\* Fault variant of the endpoint test: pathIndex >= path.length.
BreachesOffByOne(enemy) ==
  /\ enemy.progress + enemy.speed >= SegmentLength(enemy.pathIndex)
  /\ enemy.pathIndex + 1 >= Len(path)

\* The enemy reaches the end of the route in this iteration.
Breaches(enemy) ==
  /\ enemy.progress + enemy.speed >= SegmentLength(enemy.pathIndex)
  /\ enemy.pathIndex + 1 >= Len(path) - 1

\* Fault variant of updateEnemies: the loop goes on after a breach.
RECURSIVE EnemiesLoopNoReturn(_, _)
EnemiesLoopNoReturn(gs, i) ==
  IF i < 1 THEN gs
  ELSE IF Breaches(gs.enemies[i])
       THEN EnemiesLoopNoReturn(
              gameOver(updateUI([gs EXCEPT !.lives = @ - 1,
                                           !.enemies = RemoveAt(@, i),
                                           !.tickLog = Append(@, Event("breach", gs.enemies[i].id, 0))])),
              i - 1)
       ELSE EnemiesLoopNoReturn([gs EXCEPT !.enemies[i] = AdvanceEnemy(@)], i - 1)

\* updateEnemies(): from the last enemy to the first; returns at a breach.
RECURSIVE EnemiesLoop(_, _)
EnemiesLoop(gs, i) ==
  IF i < 1 THEN gs
  ELSE IF Breaches(gs.enemies[i])
       THEN gameOver(updateUI([gs EXCEPT !.lives = @ - 1,
                                         !.enemies = RemoveAt(@, i),
                                         !.tickLog = Append(@, Event("breach", gs.enemies[i].id, 0))]))
       ELSE EnemiesLoop([gs EXCEPT !.enemies[i] = AdvanceEnemy(@)], i - 1)

updateEnemies(gs) == EnemiesLoop(gs, Len(gs.enemies))

\* Fault variant of the acquisition loop: the candidate is replaced by an
\* enemy at the same distance, and an enemy at the range is taken.
RECURSIVE ClosestLoopInclusive(_, _, _, _, _)
ClosestLoopInclusive(gs, tower, k, best, bestSq) ==
  IF k > Len(gs.enemies) THEN best
  ELSE LET dx == gs.enemies[k].x - tower.x * U
           dy == gs.enemies[k].y - tower.y * U
           dSq == dx * dx + dy * dy
       IN IF dSq <= bestSq THEN ClosestLoopInclusive(gs, tower, k + 1, k, dSq)
                           ELSE ClosestLoopInclusive(gs, tower, k + 1, best, bestSq)

\* Target acquisition of updateTowers: index of the closest enemy strictly
\* inside the range, the first found among equals; 0 when there is none.
\* Distances are compared by their squares.
RECURSIVE ClosestLoop(_, _, _, _, _)
ClosestLoop(gs, tower, k, best, bestSq) ==
  IF k > Len(gs.enemies) THEN best
  ELSE LET dx == gs.enemies[k].x - tower.x * U
           dy == gs.enemies[k].y - tower.y * U
           dSq == dx * dx + dy * dy
       IN IF dSq < bestSq THEN ClosestLoop(gs, tower, k + 1, k, dSq)
                          ELSE ClosestLoop(gs, tower, k + 1, best, bestSq)

ClosestEnemy(gs, tower) ==
  ClosestLoop(gs, tower, 1, 0, (tower.range * U) * (tower.range * U))

\* createStandardProjectile / createBomberProjectile: the projectile leaves
\* the barrel end, barrelLength from the tower toward the target.
NewProjectile(tower, target) ==
  LET dx == target.x - tower.x * U
      dy == target.y - tower.y * U
      d == Sqrt(dx * dx + dy * dy)
      bomber == tower.type = "bomber"
  IN [ x |-> tower.x * U + (IF d = 0 THEN tower.barrelLength * U
                            ELSE Quot(dx * tower.barrelLength * U, d)),
       y |-> tower.y * U + (IF d = 0 THEN 0
                            ELSE Quot(dy * tower.barrelLength * U, d)),
       targetX |-> target.x, targetY |-> target.y,
       target |-> target.id,
       damage |-> tower.damage,
       speed |-> IF bomber THEN 4 ELSE 5,
       type |-> tower.type,
       explosionRadius |-> IF bomber THEN tower.radius ELSE 0,
       falloff |-> IF bomber THEN tower.falloff ELSE 0 ]

\* Fault variant of the rate-of-fire test: no tower is ever held back.
OffCooldownAlways(tower, now) == TRUE

\* A tower is off cooldown: not (now - lastShot < 1000 / fireRate).
OffCooldown(tower, now) == ~((now - tower.lastShot) * tower.fireRate < 100000)

\* Fault variant of the attack: every kind, the sniper too, fires a projectile.
AttackByProjectile(gs, k, e, now, crit) ==
  [gs EXCEPT !.towers[k].lastShot = now,
             !.towers[k].target = gs.enemies[e].id,
             !.tickLog = Append(@, Event("target", gs.enemies[e].id, 0)),
             !.projectiles = Append(@, NewProjectile(gs.towers[k], gs.enemies[e]))]

\* The attack of tower k on the enemy at index e; crit is the outcome of
\* Math.random() < criticalChance.
Attack(gs, k, e, now, crit) ==
  LET tower == gs.towers[k]
      enemy == gs.enemies[e]
      g1 == [gs EXCEPT !.towers[k].lastShot = now,
                       !.towers[k].target = enemy.id,
                       !.tickLog = Append(@, Event("target", enemy.id, 0))]
  IN IF tower.type = "sniper"
     THEN LET damage == IF crit THEN (tower.damage * tower.criticalMultiplier) \div 10
                                ELSE tower.damage
              g2 == [g1 EXCEPT !.enemies[e].health = @ - damage,
                               !.hitLog = Append(@, enemy.id),
                               !.tickLog = Append(@, Event("sniper", enemy.id, damage))]
          IN IF g2.enemies[e].health <= 0 THEN defeatEnemy(g2, enemy.id) ELSE g2
     ELSE [g1 EXCEPT !.projectiles = Append(@, NewProjectile(tower, enemy))]

\* updateTowers(now); crits is the set of towers whose critical roll succeeds.
RECURSIVE TowersLoop(_, _, _, _)
TowersLoop(gs, k, now, crits) ==
  IF k > Len(gs.towers) THEN gs
  ELSE IF ~OffCooldown(gs.towers[k], now)
       THEN TowersLoop(gs, k + 1, now, crits)
       ELSE LET e == ClosestEnemy(gs, gs.towers[k])
            IN IF e = 0 THEN TowersLoop(gs, k + 1, now, crits)
               ELSE TowersLoop(Attack(gs, k, e, now, k \in crits), k + 1, now, crits)

updateTowers(gs, now, crits) == TowersLoop(gs, 1, now, crits)

\* Area damage without falloff.
AreaDamageFull(damage, distSq, radius, falloff) == damage

\* Math.floor(damage * (1 - (distance / radius) * falloff)) for the distance
\* whose square is distSq (tenths of a unit, squared); falloff in tenths.
\* With c = damage * (distance / radius) * falloff the result is
\* damage - ceil(c), and ceil(c) is the least n with n >= c, found by comparing
\* squares (after cancelling the common divisor, to keep the products small).
AreaDamage(damage, distSq, radius, falloff) ==
  LET g == GCD(radius * U * 10, damage * falloff)
      den == (radius * U * 10) \div g
      num == (damage * falloff) \div g
      reaches(n) == (n * den) * (n * den) >= num * num * distSq
  IN damage - (CHOOSE n \in 0..(2 * damage) :
                 reaches(n) /\ \A smaller \in 0..(n - 1) : ~reaches(smaller))

\* The area loop of a bomber impact at (tx, ty): it walks the enemy array as
\* it was when the loop began (snapshot, the ids in order) and skips the
\* primary target.
RECURSIVE AreaLoop(_, _, _, _, _, _)
AreaLoop(gs, snapshot, j, proj, tx, ty) ==
  IF j > Len(snapshot) THEN gs
  ELSE LET e == IndexOf(gs, snapshot[j])
       IN IF snapshot[j] = proj.target \/ e = 0
          THEN AreaLoop(gs, snapshot, j + 1, proj, tx, ty)
          ELSE LET ex == gs.enemies[e].x - tx
                   ey == gs.enemies[e].y - ty
                   inside == ex * ex + ey * ey
                               <= (proj.explosionRadius * U) * (proj.explosionRadius * U)
                   areaDamage == AreaDamage(proj.damage, ex * ex + ey * ey,
                                            proj.explosionRadius, proj.falloff)
               IN IF inside /\ areaDamage > 0
                  THEN LET g1 == [gs EXCEPT !.enemies[e].health = @ - areaDamage,
                                            !.hitLog = Append(@, snapshot[j]),
                                            !.tickLog = Append(@, Event("splash", snapshot[j], areaDamage))]
                           g2 == IF g1.enemies[e].health <= 0
                                 THEN defeatEnemy(g1, snapshot[j]) ELSE g1
                       IN AreaLoop(g2, snapshot, j + 1, proj, tx, ty)
                  ELSE AreaLoop(gs, snapshot, j + 1, proj, tx, ty)

\* Hit registration of a projectile whose target is in the live list.
Impact(gs, proj, tx, ty) ==
  LET e == IndexOf(gs, proj.target)
      g1 == [gs EXCEPT !.enemies[e].health = @ - proj.damage,
                       !.hitLog = Append(@, proj.target),
                       !.tickLog = Append(@, Event(IF proj.type = "bomber" THEN "primary" ELSE "direct",
                                                   proj.target, proj.damage))]
  IN IF proj.type = "bomber"
     THEN LET snapshot == [k \in 1..Len(g1.enemies) |-> g1.enemies[k].id]
              g2 == AreaLoop(g1, snapshot, 1, proj, tx, ty)
              p == IndexOf(g2, proj.target)
          IN IF g2.enemies[p].health <= 0 THEN defeatEnemy(g2, proj.target) ELSE g2
     ELSE IF g1.enemies[e].health <= 0 THEN defeatEnemy(g1, proj.target) ELSE g1

\* Fault variant of the step length: the projectile does not move.
ProjectileStepStalled(speed, distance) == 0

\* Step length of a projectile at `distance` (tenths) from its aim point:
\* speed * (1 + 0.1 * (1 - distance / 300)), rounded down to a tenth; beyond
\* 300 the second term is negative.
ProjectileStep(speed, distance) ==
  speed * U + (speed * U * (300 * U - distance)) \div (10 * 300 * U)

\* Fault variant of updateProjectiles(): a projectile whose target is not in
\* the live list is removed at once.
RECURSIVE ProjectilesLoopDropStale(_, _)
ProjectilesLoopDropStale(gs, i) ==
  IF i < 1 THEN gs
  ELSE LET proj == gs.projectiles[i]
           e == IF proj.target = NoTarget THEN 0 ELSE IndexOf(gs, proj.target)
           tx == IF e # 0 THEN gs.enemies[e].x ELSE proj.targetX
           ty == IF e # 0 THEN gs.enemies[e].y ELSE proj.targetY
           dx == tx - proj.x
           dy == ty - proj.y
           distance == Sqrt(dx * dx + dy * dy)
       IN IF e = 0
          THEN ProjectilesLoopDropStale([gs EXCEPT !.projectiles = RemoveAt(@, i)], i - 1)
          ELSE IF distance < 5 * U
          THEN ProjectilesLoopDropStale(
                 [Impact(gs, proj, tx, ty) EXCEPT !.projectiles = RemoveAt(@, i)], i - 1)
          ELSE LET step == ProjectileStep(proj.speed, distance)
                   moved == [proj EXCEPT !.targetX = tx, !.targetY = ty,
                                         !.x = @ + Quot(dx * step, distance),
                                         !.y = @ + Quot(dy * step, distance)]
               IN ProjectilesLoopDropStale([gs EXCEPT !.projectiles[i] = moved], i - 1)

\* updateProjectiles(): from the last projectile to the first.
RECURSIVE ProjectilesLoop(_, _)
ProjectilesLoop(gs, i) ==
  IF i < 1 THEN gs
  ELSE LET proj == gs.projectiles[i]
           e == IF proj.target = NoTarget THEN 0 ELSE IndexOf(gs, proj.target)
           tx == IF e # 0 THEN gs.enemies[e].x ELSE proj.targetX
           ty == IF e # 0 THEN gs.enemies[e].y ELSE proj.targetY
           dx == tx - proj.x
           dy == ty - proj.y
           distance == Sqrt(dx * dx + dy * dy)
       IN IF distance < 5 * U
          THEN LET g1 == IF e # 0 THEN Impact(gs, proj, tx, ty) ELSE gs
               IN ProjectilesLoop([g1 EXCEPT !.projectiles = RemoveAt(@, i)], i - 1)
          ELSE LET step == ProjectileStep(proj.speed, distance)
                   moved == [proj EXCEPT !.targetX = tx, !.targetY = ty,
                                         !.x = @ + Quot(dx * step, distance),
                                         !.y = @ + Quot(dy * step, distance)]
               IN ProjectilesLoop([gs EXCEPT !.projectiles[i] = moved], i - 1)

updateProjectiles(gs) == ProjectilesLoop(gs, Len(gs.projectiles))

\* Fault variant of update(): the towers attack before the enemies move.
updateTowersFirst(gs, now, crits) ==
  updateProjectiles(updateEnemies(updateTowers(checkWaveCompletion(gs), now, crits)))

\* update(): the fixed order of one frame.  updateEnemies returning at a breach
\* does not end update.
update(gs, now, crits) ==
  updateProjectiles(updateTowers(updateEnemies(checkWaveCompletion(gs)), now, crits))

\* The frame's view of the clock: every lastShot stamp is FrameMs older than
\* in the previous frame (the stamp 0 of a tower that never fired stays 0).
AgeStamps(gs) ==
  [gs EXCEPT !.towers = [k \in 1..Len(gs.towers) |->
       [gs.towers[k] EXCEPT !.lastShot = Max(0, @ - FrameMs)]]]

(***************************************************************************)
(* Initial state: the module has been loaded and init() has run.           *)
(***************************************************************************)
InitialGameState ==
  [ money |-> startMoney, lives |-> startLives, wave |-> 1,
    isPlaying |-> FALSE, selectedTower |-> "null",
    towers |-> << >>, enemies |-> << >>, projectiles |-> << >>,
    enemySpawnInterval |-> NoInterval,
    gameScreen |-> "mainMenu",
    preparationPhase |-> TRUE, preparationTimer |-> preparationTime,
    difficultyFactor |-> 100,
    waveCompleted |-> FALSE, unlockedTowers |-> {"basic"},
    waveStarted |-> FALSE,
    \* history of the latest update(): the enemies it damaged, one entry per
    \* hit, and the enemies it passed to defeatEnemy
    hitLog |-> << >>,
    defeatLog |-> << >>,
    \* history of the latest update(): its events in the order they happened
    tickLog |-> << >> ]

Init ==
  /\ gameState = InitialGameState
  /\ prepIntervals = << >>
  /\ bonusTimeouts = << >>
  /\ countdownIntervals = << >>
  /\ uiContainerShown = TRUE
  /\ session = 0
  /\ resets = 0
  /\ lastHandler = "none"

(***************************************************************************)
(* Handlers.                                                               *)
(***************************************************************************)
\* startGame(): the Start Game button of the main menu.
startGame(gs) ==
  updateUI([gs EXCEPT !.isPlaying = TRUE, !.gameScreen = "game",
                      !.preparationPhase = TRUE,
                      !.preparationTimer = preparationTime,
                      !.wave = 1, !.waveStarted = FALSE])

StartGame ==
  /\ gameState.gameScreen = "mainMenu"
  /\ gameState' = startGame(gameState)
  /\ prepIntervals' = Append(prepIntervals, [session |-> session])
  /\ uiContainerShown' = TRUE
  /\ lastHandler' = "input"
  /\ UNCHANGED << bonusTimeouts, countdownIntervals, session, resets >>

\* The callback of a preparation interval.
prepCallback(gs, sess) ==
  LET g1 == [gs EXCEPT !.preparationTimer = @ - 1]
  IN IF g1.preparationTimer <= 0
     THEN startWave([g1 EXCEPT !.preparationPhase = FALSE, !.waveStarted = TRUE], sess)
     ELSE g1

PrepTick ==
  \E i \in 1..Len(prepIntervals) :
    /\ gameState' = prepCallback(gameState, session)
    /\ prepIntervals' = IF gameState.preparationTimer - 1 <= 0
                        THEN RemoveAt(prepIntervals, i) ELSE prepIntervals
    /\ lastHandler' = TimerKind(prepIntervals[i].session)
    /\ UNCHANGED << bonusTimeouts, countdownIntervals, uiContainerShown, session, resets >>

\* A click on a tower button; the buttons live in #ui-container.
SelectTower ==
  \E towerType \in TowerKinds :
    /\ uiContainerShown
    /\ gameState' = selectTower(gameState, towerType)
    /\ lastHandler' = "input"
    /\ UNCHANGED << prepIntervals, bonusTimeouts, countdownIntervals,
                    uiContainerShown, session, resets >>

\* A click on the canvas.
HandleCanvasClick ==
  \E c \in Clicks :
    /\ gameState' = handleCanvasClick(gameState, c.x, c.y)
    /\ Len(gameState'.towers) <= MaxTowers
    /\ lastHandler' = "click"
    /\ UNCHANGED << prepIntervals, bonusTimeouts, countdownIntervals,
                    uiContainerShown, session, resets >>

\* Fault variant of the spawn callback: the interval is not cleared after the
\* last enemy.
spawnCallbackNeverClears(gs, type) ==
  LET iv == gs.enemySpawnInterval
  IN IF iv.enemiesSpawned >= iv.enemyCount
     THEN gs
     ELSE [spawnEnemy(gs, type) EXCEPT !.enemySpawnInterval.enemiesSpawned = @ + 1]

\* The callback of the spawn interval of startWave.
spawnCallback(gs, type) ==
  LET iv == gs.enemySpawnInterval
  IN IF iv.enemiesSpawned >= iv.enemyCount
     THEN [gs EXCEPT !.enemySpawnInterval = NoInterval]
     ELSE [spawnEnemy(gs, type) EXCEPT !.enemySpawnInterval.enemiesSpawned = @ + 1]

SpawnTick ==
  /\ gameState.enemySpawnInterval.active
  /\ \/ gameState.enemySpawnInterval.enemiesSpawned >= gameState.enemySpawnInterval.enemyCount
     \/ Len(gameState.enemies) < MaxLive /\ resets < PlayedSessions
  /\ \E type \in selectEnemyTypeForWave(gameState.wave) :
        gameState' = spawnCallback(gameState, type)
  /\ lastHandler' = TimerKind(gameState.enemySpawnInterval.session)
  /\ UNCHANGED << prepIntervals, bonusTimeouts, countdownIntervals,
                  uiContainerShown, session, resets >>

\* The timers of one completion: the same session and wave.
SameCompletion(a, b) == a.session = b.session /\ a.wave = b.wave

\* The callback of the bonus timeout of checkWaveCompletion.
bonusCallback(gs, waveBonus) == updateUI([gs EXCEPT !.money = @ + waveBonus])

\* The timeout fires delay ms after the completion, unless a firing of the
\* next-wave interval of that completion is due strictly before it.
BonusFire ==
  \E i \in 1..Len(bonusTimeouts) :
    /\ \A j \in 1..Len(countdownIntervals) :
          SameCompletion(bonusTimeouts[i], countdownIntervals[j])
            => bonusTimeouts[i].delay
                 <= (CountdownStart - countdownIntervals[j].nextWaveCountdown + 1)
                      * CountdownPeriodMs
    /\ gameState' = bonusCallback(gameState, bonusTimeouts[i].waveBonus)
    /\ bonusTimeouts' = RemoveAt(bonusTimeouts, i)
    /\ lastHandler' = TimerKind(bonusTimeouts[i].session)
    /\ UNCHANGED << prepIntervals, countdownIntervals, uiContainerShown, session, resets >>

\* Fault variant of the expiry: the counter is incremented and nothing else.
countdownExpiredWaveOnly(gs, sess) == [gs EXCEPT !.wave = @ + 1]

\* The callback of the next-wave interval, when its countdown reaches 0.
countdownExpired(gs, sess) ==
  startWave([gs EXCEPT !.wave = @ + 1, !.waveCompleted = FALSE], sess)

\* The n-th firing of the interval is due n periods after the completion; the
\* bonus timeout of the same completion, registered before the interval, goes
\* first unless the firing is due strictly before it.  The countdown is not
\* let expire once the wave counter is maxWave.
CountdownStep(maxWave) ==
  \E i \in 1..Len(countdownIntervals) :
    LET left == countdownIntervals[i].nextWaveCountdown - 1
    IN /\ left <= 0 => gameState.wave < maxWave
       /\ \A j \in 1..Len(bonusTimeouts) :
             SameCompletion(bonusTimeouts[j], countdownIntervals[i])
               => (CountdownStart - left) * CountdownPeriodMs < bonusTimeouts[j].delay
       /\ gameState' = IF left <= 0 THEN countdownExpired(gameState, session)
                       ELSE gameState
       /\ countdownIntervals' =
            IF left <= 0 THEN RemoveAt(countdownIntervals, i)
            ELSE [countdownIntervals EXCEPT ![i].nextWaveCountdown = left]
       /\ lastHandler' = TimerKind(countdownIntervals[i].session)
       /\ UNCHANGED << prepIntervals, bonusTimeouts, uiContainerShown, session, resets >>

CountdownTick == CountdownStep(MaxWave)

\* gameLoop(): one animation frame.  update() runs only on the game screen
\* while playing; the timers of checkWaveCompletion and the gameOver of a
\* breach are part of the frame.
Snipers(gs) == {k \in 1..Len(gs.towers) : gs.towers[k].type = "sniper"}

GameLoop ==
  /\ gameState.gameScreen = "game"
  /\ gameState.isPlaying
  /\ \E crits \in SUBSET Snipers(gameState) :
        gameState' = update(AgeStamps([gameState EXCEPT !.defeatLog = << >>, !.hitLog = << >>,
                                                            !.tickLog = << >>]),
                            Epoch, crits)
  /\ bonusTimeouts' =
       IF CompletionDue(gameState)
       THEN Append(bonusTimeouts, [waveBonus |-> WaveBonus(gameState.wave),
                                   delay |-> BonusDelayMs,
                                   session |-> session, wave |-> gameState.wave])
       ELSE bonusTimeouts
  /\ countdownIntervals' =
       IF CompletionDue(gameState)
       THEN Append(countdownIntervals, [nextWaveCountdown |-> CountdownStart,
                                        session |-> session, wave |-> gameState.wave])
       ELSE countdownIntervals
  /\ session' = IF gameState'.isPlaying THEN session ELSE session + 1
  /\ lastHandler' = "gameLoop"
  /\ UNCHANGED << prepIntervals, uiContainerShown, resets >>

\* resetGame()
resetGame(gs) ==
  updateUI([gs EXCEPT !.money = startMoney, !.lives = startLives, !.wave = 1,
                      !.towers = << >>, !.enemies = << >>, !.projectiles = << >>,
                      !.selectedTower = "null", !.difficultyFactor = 100,
                      !.waveCompleted = FALSE, !.unlockedTowers = {"basic"},
                      !.waveStarted = FALSE,
                      !.enemySpawnInterval = NoInterval,
                      !.defeatLog = << >>, !.hitLog = << >>, !.tickLog = << >>])

\* The Restart Game / Play Again buttons: resetGame(), then the main menu.
RestartClick ==
  /\ resets < MaxResets
  /\ gameState' = [resetGame(gameState) EXCEPT !.gameScreen = "mainMenu"]
  /\ uiContainerShown' = FALSE
  /\ session' = session + 1
  /\ resets' = resets + 1
  /\ lastHandler' = "input"
  /\ UNCHANGED << prepIntervals, bonusTimeouts, countdownIntervals >>

Next ==
  \/ StartGame
  \/ PrepTick
  \/ SelectTower
  \/ HandleCanvasClick
  \/ SpawnTick
  \/ BonusFire
  \/ CountdownTick
  \/ GameLoop
  \/ RestartClick

Spec == Init /\ [][Next]_vars

(***************************************************************************)
(* A combat scene: a later wave in mid-play, with a bomber, a sniper and a *)
(* basic tower placed and CombatEnemies enemies of that wave on the route, *)
(* its spawn schedule exhausted.  Only frames run.                         *)
(***************************************************************************)
CombatWave == 7
CombatEnemies == 2

\* The towers, placed through the placement handlers.
CombatTowers ==
  LET g0 == [InitialGameState EXCEPT !.isPlaying = TRUE, !.wave = CombatWave,
                                     !.money = 500]
      g1 == handleCanvasClick(selectTower(g0, "bomber"), 90, 50)
      g2 == handleCanvasClick(selectTower(g1, "sniper"), 50, 85)
      g3 == handleCanvasClick(selectTower(g2, "basic"), 90, 85)
  IN g3

\* An enemy of the wave somewhere on the route, as spawnEnemy and
\* updateEnemies leave it.
EnemyAt(gs, id, type, pathIndex, progress, health) ==
  LET e == spawnEnemy(gs, type).enemies[Len(gs.enemies) + 1]
      cur == path[pathIndex + 1]
      nxt == path[pathIndex + 2]
      distance == SegmentLength(pathIndex)
  IN [e EXCEPT !.id = id, !.pathIndex = pathIndex, !.progress = progress,
               !.health = Min(health, e.maxHealth),
               !.x = cur.x * U + Quot((nxt.x - cur.x) * U * progress, distance),
               !.y = cur.y * U + Quot((nxt.y - cur.y) * U * progress, distance)]

CombatPlaces == { [pathIndex |-> 0, progress |-> 20],
                  [pathIndex |-> 5, progress |-> 100],
                  [pathIndex |-> 6, progress |-> 80] }

\* Health left to an enemy of the scene, capped at the full health of its kind.
CombatHealths == {10, 170, 1000}

CombatInit ==
  /\ \E kinds \in [1..CombatEnemies -> {"basic", "strong"}],
        places \in [1..CombatEnemies -> CombatPlaces],
        healths \in [1..CombatEnemies -> CombatHealths] :
        LET g == [CombatTowers EXCEPT
                    !.gameScreen = "game", !.preparationPhase = FALSE,
                    !.preparationTimer = 0, !.waveStarted = TRUE,
                    !.difficultyFactor = calculateWaveDifficulty(CombatWave)]
        IN gameState =
             [g EXCEPT !.enemies =
                [k \in 1..CombatEnemies |->
                   EnemyAt(g, k, kinds[k], places[k].pathIndex,
                           places[k].progress, healths[k])]]
  /\ prepIntervals = << >>
  /\ bonusTimeouts = << >>
  /\ countdownIntervals = << >>
  /\ uiContainerShown = TRUE
  /\ session = 0
  /\ resets = 0
  /\ lastHandler = "none"

CombatNext == GameLoop

CombatSpec == CombatInit /\ [][CombatNext]_vars

(***************************************************************************)
(* Properties.                                                             *)
(***************************************************************************)
\* The identities of a list of enemies, in order.
EnemyIds(es) == [k \in 1..Len(es) |-> es[k].id]

\* The rewards of the enemies of gs named in log, added up.
RECURSIVE RewardSum(_, _)
RewardSum(gs, log) ==
  IF Len(log) = 0 THEN 0
  ELSE gs.enemies[IndexOf(gs, Head(log))].reward + RewardSum(gs, Tail(log))

\* C1, as claimed: once a breach has brought lives to 0 and the session is in
\* game over, no step other than resetGame changes the enemies, the towers,
\* the projectiles or money; and the tick of the breach itself leaves the
\* towers (apart from the ageing of their stamps), the projectiles and money
\* as they were.
C1_FrozenAfterGameOver ==
  [][ /\ (gameState.lives <= 0 /\ ~gameState.isPlaying /\ resets' = resets)
        => /\ gameState'.enemies = gameState.enemies
           /\ gameState'.towers = gameState.towers
           /\ gameState'.projectiles = gameState.projectiles
           /\ gameState'.money = gameState.money
      /\ (gameState.lives > 0 /\ gameState'.lives <= 0)
        => /\ gameState'.towers = AgeStamps(gameState).towers
           /\ gameState'.projectiles = gameState.projectiles
           /\ gameState'.money = gameState.money ]_vars

\* C2: when updateEnemies meets an enemy whose advancement takes its pathIndex
\* to the last waypoint, lives goes down by exactly 1, exactly one such enemy
\* leaves the live list (the others stay, in order), and money is unchanged.
C2_BreachCostsOneLife ==
  LET pre == gameState
      post == updateEnemies(pre)
      breaching == {k \in 1..Len(pre.enemies) :
                      AdvanceEnemy(pre.enemies[k]).pathIndex >= Len(path) - 1}
  IN (pre.isPlaying /\ breaching # {})
       => /\ post.lives = pre.lives - 1
          /\ \E k \in breaching :
                EnemyIds(post.enemies) = RemoveAt(EnemyIds(pre.enemies), k)
          /\ post.money = pre.money

\* A frame has just ended in a breach while another enemy was on the route.
C2_Witness ==
  /\ lastHandler = "gameLoop"
  /\ gameState.lives = startLives - 1
  /\ ~gameState.isPlaying
  /\ Len(gameState.enemies) >= 1

\* C3: in every frame each enemy is passed to defeatEnemy at most once, every
\* enemy so defeated was live before the frame and is not live after it, and
\* money grows by the rewards of the defeated enemies, each counted once,
\* whatever number of hits they took in the frame.
C3_DefeatedOnce ==
  [][ LET log == gameState'.defeatLog
      IN /\ \A a, b \in 1..Len(log) : log[a] = log[b] => a = b
         /\ \A a \in 1..Len(log) :
               /\ IndexOf(gameState, log[a]) # 0
               /\ IndexOf(gameState', log[a]) = 0
         /\ gameState'.money = gameState.money + RewardSum(gameState, log) ]_vars

\* An enemy was hit more than once in the latest frame and defeated in it.
C3_Witness ==
  \E a, b \in 1..Len(gameState.hitLog) :
    /\ a # b
    /\ gameState.hitLog[a] = gameState.hitLog[b]
    /\ gameState.hitLog[a] \in Range(gameState.defeatLog)

\* C4, as claimed: the callback of a timer started before the latest resetGame
\* or gameOver changes none of wave, money, enemies, waveStarted,
\* waveCompleted, preparationTimer and the spawn schedule.
C4_StaleTimersInert ==
  [][ lastHandler' = "staleTimer"
        => /\ gameState'.wave = gameState.wave
           /\ gameState'.money = gameState.money
           /\ gameState'.enemies = gameState.enemies
           /\ gameState'.waveStarted = gameState.waveStarted
           /\ gameState'.waveCompleted = gameState.waveCompleted
           /\ gameState'.preparationTimer = gameState.preparationTimer
           /\ gameState'.enemySpawnInterval = gameState.enemySpawnInterval ]_vars

\* C5: a step taken while waveStarted is false neither sets waveCompleted nor
\* schedules a bonus or a next-wave countdown, and a frame of the preparation
\* phase leaves waveCompleted false.
C5_NoCompletionBeforeStart ==
  [][ /\ ~gameState.waveStarted
        => /\ gameState'.waveCompleted => gameState.waveCompleted
           /\ Len(bonusTimeouts') <= Len(bonusTimeouts)
           /\ Len(countdownIntervals') <= Len(countdownIntervals)
      /\ (lastHandler' = "gameLoop" /\ gameState.preparationPhase)
        => ~gameState'.waveCompleted ]_vars

\* A frame has just run in the preparation phase, with no enemy and no spawn
\* schedule.
C5_Witness ==
  /\ lastHandler = "gameLoop"
  /\ gameState.preparationPhase
  /\ ~gameState.waveStarted
  /\ Len(gameState.enemies) = 0
  /\ ~gameState.enemySpawnInterval.active
  /\ ~gameState.waveCompleted

\* C6, as claimed: the wave counter goes up only by 1, only in answer to a
\* completion of the running wave (waveCompleted is set), and the same step
\* resets waveCompleted and leaves the next spawn schedule active.
C6_OneIncrementPerCompletion ==
  [][ gameState'.wave > gameState.wave
        => /\ gameState'.wave = gameState.wave + 1
           /\ gameState.waveCompleted
           /\ ~gameState'.waveCompleted
           /\ gameState'.enemySpawnInterval.active ]_vars

\* C7, as claimed: when the wave counter goes up, the live enemy list is empty
\* and the spawn schedule of the wave that ends has run out.
C7_IncrementAfterWaveCleared ==
  [][ gameState'.wave > gameState.wave
        => /\ Len(gameState.enemies) = 0
           /\ ~gameState.enemySpawnInterval.active ]_vars

\* C8: a canvas click whose grid position is outside the playable bounds,
\* within gridSize of a tower on both axes, or within 30 units of a sampled
\* point of the path leaves money and the tower list unchanged.
C8_InvalidPositionRejected ==
  \A c \in Clicks :
    LET x == (c.x \div gridSize) * gridSize
        y == (c.y \div gridSize) * gridSize
        outside == x < 20 \/ y < 20 \/ x > canvasWidth - 20 \/ y > canvasHeight - 20
        nearTower == \E k \in 1..Len(gameState.towers) :
                        /\ Abs(gameState.towers[k].x - x) < gridSize
                        /\ Abs(gameState.towers[k].y - y) < gridSize
        nearPath == \E p \in PathSamples :
                       (p.x - x * U) * (p.x - x * U) + (p.y - y * U) * (p.y - y * U)
                         < (30 * U) * (30 * U)
        after == handleCanvasClick(gameState, c.x, c.y)
    IN (outside \/ nearTower \/ nearPath)
         => after.money = gameState.money /\ after.towers = gameState.towers

\* A canvas click has just been turned down in a running session with a tower
\* on the field: the selection is still pending.
C8_Witness ==
  /\ lastHandler = "click"
  /\ gameState.isPlaying
  /\ gameState.selectedTower # "null"
  /\ Len(gameState.towers) >= 1

\* C9: whenever a tower is inserted, the wave is at least the unlockWave of
\* its kind and money is at least its cost, in the state the insertion is
\* made in.
C9_InsertedUnlockedAndAffordable ==
  [][ Len(gameState'.towers) > Len(gameState.towers)
        => LET kind == gameState'.towers[Len(gameState'.towers)].type
           IN /\ gameState.wave >= towerTypes[kind].unlockWave
              /\ gameState.money >= towerTypes[kind].cost ]_vars

\* A tower of a kind that is locked in wave 1 has just been placed.
C9_Witness ==
  /\ lastHandler = "click"
  /\ Len(gameState.towers) >= 1
  /\ gameState.towers[Len(gameState.towers)].type = "cannon"

C11_MoneyNeverNegative == gameState.money >= 0

\* A tower has just been bought with money that would not pay for a second one
\* of its kind.
C11_Witness ==
  /\ lastHandler = "click"
  /\ Len(gameState.towers) >= 1
  /\ gameState.money < gameState.towers[Len(gameState.towers)].cost

\* C12, as claimed: a spawn schedule starts with nothing spawned and the count
\* floor(8 * (1 + (w - 1) * 0.2)) of its wave (8, 16 and 24 for waves 1, 6 and
\* 11); until resetGame, the only changes to a running schedule are a firing
\* that spawns one enemy while fewer than the count are spawned, and the firing
\* after the last spawn, which makes it idle; an idle schedule adds no enemy.
C12_ScheduleRunsToItsEnd ==
  [][ LET iv == gameState.enemySpawnInterval
          iw == gameState'.enemySpawnInterval
          count(w) == (8 * (10 + (w - 1) * 2)) \div 10
      IN /\ count(1) = 8 /\ count(6) = 16 /\ count(11) = 24
         /\ (~iv.active /\ iw.active)
              => iw.enemiesSpawned = 0 /\ iw.enemyCount = count(gameState'.wave)
         /\ (iv.active /\ iw # iv /\ resets' = resets)
              => \/ /\ iv.enemiesSpawned < iv.enemyCount
                    /\ iw = [iv EXCEPT !.enemiesSpawned = @ + 1]
                    /\ Len(gameState'.enemies) = Len(gameState.enemies) + 1
                 \/ /\ iv.enemiesSpawned = iv.enemyCount
                    /\ iw = NoInterval
                    /\ gameState'.enemies = gameState.enemies
         /\ (~iv.active /\ ~iw.active)
              => Len(gameState'.enemies) <= Len(gameState.enemies) ]_vars

(***************************************************************************)
(* The wave director alone: a session at any wave up to DirectorWaves,     *)
(* either in the preparation of wave 1 or between two waves with the bonus *)
(* paid and the next-wave interval part-way through its countdown.  Only   *)
(* the two timers that call startWave run.                                 *)
(***************************************************************************)
DirectorWaves == 20

DirectorInit ==
  /\ \/ /\ gameState = startGame(InitialGameState)
        /\ prepIntervals = << [session |-> 0] >>
        /\ countdownIntervals = << >>
     \/ \E w \in 1..(DirectorWaves - 1), left \in 1..CountdownStart :
          /\ gameState =
               updateUI([startGame(InitialGameState) EXCEPT
                           !.wave = w, !.waveStarted = TRUE,
                           !.waveCompleted = TRUE,
                           !.preparationPhase = FALSE, !.preparationTimer = 0,
                           !.difficultyFactor = calculateWaveDifficulty(w)])
          /\ prepIntervals = << >>
          /\ countdownIntervals =
               << [nextWaveCountdown |-> left, session |-> 0, wave |-> w] >>
  /\ bonusTimeouts = << >>
  /\ uiContainerShown = TRUE
  /\ session = 0
  /\ resets = 0
  /\ lastHandler = "none"

DirectorNext == PrepTick \/ CountdownStep(DirectorWaves)

DirectorSpec == DirectorInit /\ [][DirectorNext]_vars

\* C13: the delay between the spawns of wave w is max(300, 1200 - (w - 1) * 50)
\* milliseconds: 1200 in wave 1, 300 from wave 19 on, never below 300 and never
\* above the delay of an earlier wave.
C13_SpawnIntervalFloor ==
  LET iv == gameState.enemySpawnInterval
      w == gameState.wave
      linear == 1200 - (w - 1) * 50
  IN iv.active =>
       /\ iv.delay = (IF linear > 300 THEN linear ELSE 300)
       /\ iv.delay >= 300
       /\ (w = 1 => iv.delay = 1200)
       /\ (w >= 19 => iv.delay = 300)
       /\ (w = 18 => iv.delay = 350)
       /\ \A earlier \in 1..w : SpawnIntervalMs(earlier) >= iv.delay

\* The next-wave interval has just started wave 19, the first wave at the floor.
C13_Witness ==
  /\ lastHandler = "timer"
  /\ gameState.wave = 19
  /\ gameState.enemySpawnInterval.active
  /\ gameState.enemySpawnInterval.delay = 300

(***************************************************************************)
(* A bomber impact: the combat scene's towers, a bomber projectile within  *)
(* reach of its target and BlastOthers other enemies at points of the      *)
(* route as drawn (pathSource), some inside the explosion and some beyond  *)
(* it.  The only step is updateProjectiles.                                *)
(***************************************************************************)
BlastOthers == 2

\* Points of the first two segments of pathSource.
BlastTargetPlaces == { [x |-> 200, y |-> 120], [x |-> 190, y |-> 120] }
BlastPlaces ==
  { [x |-> 200, y |-> 120], [x |-> 170, y |-> 120], [x |-> 140, y |-> 120],
    [x |-> 139, y |-> 120], [x |-> 200, y |-> 130], [x |-> 200, y |-> 220] }

\* Health left to an enemy of the scene, capped at the full health of its kind.
BlastHealths == {10, 30, 1000}

\* An enemy of the wave at a point of the drawn route.
BlastEnemy(gs, id, type, place, health) ==
  LET e == spawnEnemy(gs, type).enemies[Len(gs.enemies) + 1]
  IN [e EXCEPT !.id = id, !.health = Min(health, e.maxHealth),
               !.x = place.x * U, !.y = place.y * U,
               !.pathIndex = IF place.x < 200 THEN 0 ELSE 1,
               !.progress = IF place.x < 200 THEN place.x * U
                            ELSE (place.y - 120) * U]

BlastInit ==
  /\ \E target \in BlastTargetPlaces, targetHealth \in {40, 1000},
        places \in [1..BlastOthers -> BlastPlaces],
        healths \in [1..BlastOthers -> BlastHealths] :
        LET g == [CombatTowers EXCEPT
                    !.gameScreen = "game", !.preparationPhase = FALSE,
                    !.preparationTimer = 0, !.waveStarted = TRUE,
                    !.difficultyFactor = calculateWaveDifficulty(CombatWave)]
            primary == BlastEnemy(g, BlastOthers + 1, "basic", target, targetHealth)
            others == [k \in 1..BlastOthers |->
                         BlastEnemy(g, k, "strong", places[k], healths[k])]
            proj == [NewProjectile(g.towers[1], primary) EXCEPT
                       !.x = primary.x - 3 * U, !.y = primary.y]
        IN gameState = [g EXCEPT !.enemies = Append(others, primary),
                                 !.projectiles = << proj >>]
  /\ prepIntervals = << >>
  /\ bonusTimeouts = << >>
  /\ countdownIntervals = << >>
  /\ uiContainerShown = TRUE
  /\ session = 0
  /\ resets = 0
  /\ lastHandler = "none"

BlastStep ==
  /\ Len(gameState.projectiles) > 0
  /\ gameState' = updateProjectiles([gameState EXCEPT !.hitLog = << >>,
                                                      !.defeatLog = << >>,
                                                      !.tickLog = << >>])
  /\ lastHandler' = "gameLoop"
  /\ UNCHANGED << prepIntervals, bonusTimeouts, countdownIntervals,
                  uiContainerShown, session, resets >>

BlastNext == BlastStep

BlastSpec == BlastInit /\ [][BlastNext]_vars

RECURSIVE HitsOn(_, _)
HitsOn(log, id) ==
  IF Len(log) = 0 THEN 0
  ELSE (IF Head(log).id = id /\ Head(log).kind \in {"sniper", "direct", "primary", "splash"}
        THEN Head(log).amount ELSE 0) + HitsOn(Tail(log), id)

C16_PathIndexWithinRoute ==
  /\ [](\A k \in 1..Len(gameState.enemies) :
          /\ 0 <= gameState.enemies[k].pathIndex
          /\ gameState.enemies[k].pathIndex < Len(path) - 1)
  /\ [][ \A k \in 1..Len(gameState.enemies) :
           LET e == gameState.enemies[k]
               after == IndexOf(gameState', e.id)
           IN /\ after # 0
                   => /\ e.pathIndex <= gameState'.enemies[after].pathIndex
                      /\ gameState'.enemies[after].pathIndex <= e.pathIndex + 1
              /\ (lastHandler' = "gameLoop"
                  /\ \E a \in 1..Len(gameState'.tickLog) :
                        gameState'.tickLog[a] = Event("breach", e.id, 0))
                   => after = 0 ]_vars

\* An enemy has just entered the last segment of the route and is live.
C16_Witness ==
  /\ lastHandler = "gameLoop"
  /\ \E k \in 1..Len(gameState.enemies) :
       /\ gameState.enemies[k].pathIndex = Len(path) - 2
       /\ gameState.enemies[k].progress = 0

\* C17, as claimed: when startGame has run, the session state holds the
\* starting values: money 75, lives 1, wave 1, difficulty factor 1.0, no towers,
\* enemies or projectiles, no active spawn schedule, waveStarted and
\* waveCompleted false.
C17_StartsFromStartingValues ==
  [][ (gameState.gameScreen = "mainMenu" /\ gameState'.gameScreen = "game")
      => /\ gameState'.money = startMoney
         /\ gameState'.lives = startLives
         /\ gameState'.wave = 1
         /\ gameState'.difficultyFactor = 100
         /\ gameState'.towers = << >>
         /\ gameState'.enemies = << >>
         /\ gameState'.projectiles = << >>
         /\ ~gameState'.enemySpawnInterval.active
         /\ ~gameState'.waveStarted
         /\ ~gameState'.waveCompleted ]_vars

\* C18: the frame that detects the completion of wave w schedules one bonus of
\* floor(20 + w * 5), due 1000 ms later, and nothing else schedules one; the
\* bonus is paid by adding exactly that amount to money, once, whatever the
\* wave counter is by then; money grows otherwise only by the rewards of a
\* frame; and when the next-wave interval of a completion increments the wave
\* counter, the bonus of that completion has been paid.
C18_BonusOncePerCompletion ==
  [][ LET completed == ~gameState.waveCompleted /\ gameState'.waveCompleted
      IN /\ completed
              => bonusTimeouts' =
                   Append(bonusTimeouts,
                          [waveBonus |-> 20 + gameState.wave * 5, delay |-> 1000,
                           session |-> session, wave |-> gameState.wave])
         /\ ~completed => Len(bonusTimeouts') <= Len(bonusTimeouts)
         /\ Len(bonusTimeouts') < Len(bonusTimeouts)
              => \E i \in 1..Len(bonusTimeouts) :
                    /\ bonusTimeouts' = RemoveAt(bonusTimeouts, i)
                    /\ gameState'.money = gameState.money + bonusTimeouts[i].waveBonus
         /\ (gameState'.money > gameState.money /\ bonusTimeouts' = bonusTimeouts)
              => lastHandler' = "gameLoop" \/ resets' # resets
         /\ gameState'.wave = gameState.wave + 1
              => \E i \in 1..Len(countdownIntervals) :
                    /\ countdownIntervals' = RemoveAt(countdownIntervals, i)
                    /\ \A j \in 1..Len(bonusTimeouts) :
                          ~SameCompletion(bonusTimeouts[j], countdownIntervals[i]) ]_vars

\* The bonus of wave 1 has just been paid, before the first firing of the
\* next-wave interval of that completion.
C18_Witness ==
  /\ lastHandler = "timer"
  /\ gameState.waveCompleted
  /\ gameState.wave = 1
  /\ bonusTimeouts = << >>
  /\ Len(countdownIntervals) = 1
  /\ countdownIntervals[1].nextWaveCountdown = CountdownStart
  /\ gameState.money >= 25

\* C19, as claimed: the difficulty factor is 1.0 while the session is in wave 1,
\* no step within a session lowers it, and each startWave sets it to
\* 1 + (wave - 1) * 0.15, plus log10(wave - 9) * 0.5 when wave > 10.
C19_DifficultyNeverDecreases ==
  [][ LET iv == gameState.enemySpawnInterval
          iw == gameState'.enemySpawnInterval
          w == gameState'.wave
      IN /\ (gameState'.gameScreen = "game" /\ w = 1)
              => gameState'.difficultyFactor = 100
         /\ session' = session
              => gameState'.difficultyFactor >= gameState.difficultyFactor
         /\ (iw.active /\ iw.enemiesSpawned = 0 /\ iw # iv)
              => gameState'.difficultyFactor =
                   100 + (w - 1) * 15 + (IF w > 10 THEN LogTerm(w - 9) ELSE 0) ]_vars

\* The step of update() an event of the frame's history belongs to: 2 enemy
\* movement, 3 tower combat, 4 projectile resolution; 0 for a defeat, which
\* happens within either of the last two.
StepOf(kind) ==
  CASE kind = "breach" -> 2
    [] kind \in {"target", "sniper"} -> 3
    [] kind \in {"direct", "primary", "splash"} -> 4
    [] OTHER -> 0

C21_WaveTransitionAtomic ==
  [][ LET iv == gameState.enemySpawnInterval
          iw == gameState'.enemySpawnInterval
      IN /\ gameState'.wave = gameState.wave + 1
              => /\ ~gameState'.waveCompleted
                 /\ iw.active
                 /\ iw.enemiesSpawned = 0
                 /\ iw.enemyCount = (8 * (10 + (gameState'.wave - 1) * 2)) \div 10
         /\ (~gameState.waveCompleted /\ gameState'.waveCompleted)
              => ~iv.active /\ gameState'.wave = gameState.wave
         /\ (iv.active /\ ~iw.active)
              => iv.enemiesSpawned >= iv.enemyCount \/ resets' # resets ]_vars

\* The next-wave interval of the running session has just incremented the wave
\* counter to 2.
C21_Witness ==
  /\ lastHandler = "timer"
  /\ gameState.wave = 2
  /\ ~gameState.waveCompleted
  /\ gameState.enemySpawnInterval.active
  /\ gameState.enemySpawnInterval.enemiesSpawned = 0
  /\ gameState.enemySpawnInterval.enemyCount = 9
  /\ countdownIntervals = << >>

\* C22, as claimed: while a session is in its preparation phase no spawn
\* schedule is active and no enemy is live; the phase ends at the firing that
\* brings preparationTimer from 1 to 0, which starts the schedule of wave 1; and
\* nothing else starts a schedule of wave 1 in the session.
C22_PreparationHoldsSpawning ==
  [][ LET iv == gameState.enemySpawnInterval
          iw == gameState'.enemySpawnInterval
      IN /\ (gameState'.gameScreen = "game" /\ gameState'.preparationPhase)
              => ~iw.active /\ gameState'.enemies = << >>
         /\ (gameState.preparationPhase /\ ~gameState'.preparationPhase)
              => /\ gameState.preparationTimer = 1
                 /\ gameState'.preparationTimer = 0
                 /\ iw.active /\ iw.enemiesSpawned = 0
         /\ (gameState'.gameScreen = "game" /\ gameState'.wave = 1
             /\ iw.active /\ iw.enemiesSpawned = 0 /\ iw # iv)
              => gameState.preparationPhase ]_vars

\* C23, as claimed: every live enemy is at the linear interpolation along its
\* current segment, path[pathIndex] + (path[pathIndex + 1] - path[pathIndex]) *
\* progress / segmentLength (indices of the source); with progress 0, at the
\* start of that segment.
C23_PositionOnCurrentSegment ==
  \A k \in 1..Len(gameState.enemies) :
    LET e == gameState.enemies[k]
        cur == path[e.pathIndex + 1]
        nxt == path[e.pathIndex + 2]
        distance == SegmentLength(e.pathIndex)
    IN /\ e.x = cur.x * U + Quot((nxt.x - cur.x) * U * e.progress, distance)
       /\ e.y = cur.y * U + Quot((nxt.y - cur.y) * U * e.progress, distance)

\* C24, as claimed: the target of every tower is empty or an enemy of the live
\* list.
C24_TargetsAreLive ==
  \A k \in 1..Len(gameState.towers) :
    \/ gameState.towers[k].target = NoTarget
    \/ IndexOf(gameState, gameState.towers[k].target) # 0

\* The number of entries of the sequence s that satisfy Test.
CountOf(s, Test(_)) == Cardinality({k \in 1..Len(s) : Test(s[k])})

\* The projectile is within the proximity threshold of its aim point.
AtAimPoint(proj) ==
  LET dx == proj.targetX - proj.x
      dy == proj.targetY - proj.y
  IN Sqrt(dx * dx + dy * dy) < 5 * U

TargetEnemies == 3

\* The canvas click that places the tower of each kind.
TargetClicks ==
  [ basic  |-> [x |-> 330, y |-> 210],
    cannon |-> [x |-> 290, y |-> 210],
    magic  |-> [x |-> 290, y |-> 210],
    sniper |-> [x |-> 290, y |-> 210],
    bomber |-> [x |-> 290, y |-> 210] ]

TargetPlaces ==
  { [x |-> 200, y |-> 130], [x |-> 200, y |-> 140], [x |-> 200, y |-> 141],
    [x |-> 200, y |-> 180], [x |-> 200, y |-> 200], [x |-> 200, y |-> 220] }

TargetInit ==
  /\ \E kind \in TowerKinds, places \in [1..TargetEnemies -> TargetPlaces] :
        LET g0 == [InitialGameState EXCEPT
                     !.isPlaying = TRUE, !.wave = CombatWave, !.money = 500,
                     !.gameScreen = "game", !.preparationPhase = FALSE,
                     !.preparationTimer = 0, !.waveStarted = TRUE,
                     !.difficultyFactor = calculateWaveDifficulty(CombatWave)]
            g1 == handleCanvasClick(selectTower(updateUI(g0), kind),
                                    TargetClicks[kind].x, TargetClicks[kind].y)
        IN gameState =
             [g1 EXCEPT !.enemies =
                [k \in 1..TargetEnemies |->
                   BlastEnemy(g1, k, "strong", places[k], 1000)]]
  /\ prepIntervals = << >>
  /\ bonusTimeouts = << >>
  /\ countdownIntervals = << >>
  /\ uiContainerShown = TRUE
  /\ session = 0
  /\ resets = 0
  /\ lastHandler = "none"

TargetStep ==
  /\ lastHandler = "none"
  /\ \E crits \in SUBSET Snipers(gameState) :
        gameState' = updateTowers(gameState, Epoch, crits)
  /\ lastHandler' = "gameLoop"
  /\ UNCHANGED << prepIntervals, bonusTimeouts, countdownIntervals,
                  uiContainerShown, session, resets >>

TargetNext == TargetStep

TargetSpec == TargetInit /\ [][TargetNext]_vars

\* C26: a tower off cooldown acquires the live enemy at the smallest distance
\* among those at distance < range, the earliest in the list among equals; an
\* enemy at exactly the range is not eligible; with no eligible enemy the tower
\* does nothing.
C26_ClosestEnemyInRange ==
  [][ lastHandler' = "gameLoop" =>
        LET tower == gameState.towers[1]
            es == gameState.enemies
            dSq(k) == (es[k].x - tower.x * U) * (es[k].x - tower.x * U)
                      + (es[k].y - tower.y * U) * (es[k].y - tower.y * U)
            eligible == {k \in 1..Len(es) : dSq(k) < (tower.range * U) * (tower.range * U)}
            chosen == CHOOSE k \in eligible :
                        \A j \in eligible : dSq(k) < dSq(j) \/ (dSq(k) = dSq(j) /\ k <= j)
        IN IF eligible = {}
           THEN gameState' = gameState
           ELSE /\ gameState'.tickLog[1] = Event("target", es[chosen].id, 0)
                /\ gameState'.towers[1].target = es[chosen].id
                /\ gameState'.towers[1].lastShot = Epoch
                /\ \A a \in 2..Len(gameState'.tickLog) :
                      gameState'.tickLog[a].kind # "target" ]_vars

\* The cannon has acquired the second enemy of the list, at the same distance
\* as the third, and not the first, which is at exactly its range.
C26_Witness ==
  /\ lastHandler = "gameLoop"
  /\ Len(gameState.enemies) = 3
  /\ gameState.towers[1].type = "cannon"
  /\ gameState.enemies[1].y = 140 * U
  /\ gameState.enemies[2].y = 180 * U
  /\ gameState.enemies[3].y = 220 * U
  /\ gameState.towers[1].target = gameState.enemies[2].id

\* C27: a tower attacks in a frame only if at least 1000 / fireRate ms have
\* passed on the frame clock since its previous attack, and at most once per
\* frame; a tower that does not attack keeps its lastShot (the stamp only ages
\* with the clock) and everything else, and a tower whose time has passed
\* attacks in any frame that leaves an enemy inside its range.
C27_CooldownBetweenAttacks ==
  [][ lastHandler' = "gameLoop" =>
        LET before == gameState.towers
            after == gameState'.towers
            attacked(k) == after[k].lastShot = Epoch
            elapsed(k) == Epoch - Max(0, before[k].lastShot - FrameMs)
            ready(k) == elapsed(k) * before[k].fireRate >= 1000 * 100
            inRange(k) ==
              \E e \in 1..Len(gameState'.enemies) :
                 LET dx == gameState'.enemies[e].x - before[k].x * U
                     dy == gameState'.enemies[e].y - before[k].y * U
                 IN dx * dx + dy * dy < (before[k].range * U) * (before[k].range * U)
            acquired(ev) == ev.kind = "target"
        IN /\ Len(after) = Len(before)
           /\ \A k \in 1..Len(before) :
                /\ attacked(k) => ready(k)
                /\ ~attacked(k)
                     => after[k] = [before[k] EXCEPT !.lastShot = Max(0, @ - FrameMs)]
                /\ (ready(k) /\ inRange(k)) => attacked(k)
           /\ CountOf(gameState'.tickLog, acquired)
                = Cardinality({k \in 1..Len(before) : attacked(k)}) ]_vars

\* The basic tower has just attacked again, its earlier projectile still in
\* flight, in a frame in which the sniper, still cooling down, did not.
C27_Witness ==
  /\ lastHandler = "gameLoop"
  /\ \E k, s \in 1..Len(gameState.towers) :
       /\ gameState.towers[k].type = "basic"
       /\ gameState.towers[k].lastShot = Epoch
       /\ gameState.towers[s].type = "sniper"
       /\ 0 < gameState.towers[s].lastShot
       /\ gameState.towers[s].lastShot < Epoch
  /\ Cardinality({p \in 1..Len(gameState.projectiles) :
                    gameState.projectiles[p].type = "basic"}) >= 2
  /\ Len(gameState.enemies) > 0

SpawnWaves == 10

SpawnInit ==
  /\ \E w \in 1..SpawnWaves :
        gameState =
          startWave([InitialGameState EXCEPT
                       !.isPlaying = TRUE, !.wave = w, !.gameScreen = "game",
                       !.preparationPhase = FALSE, !.preparationTimer = 0,
                       !.waveStarted = TRUE], 0)
  /\ prepIntervals = << >>
  /\ bonusTimeouts = << >>
  /\ countdownIntervals = << >>
  /\ uiContainerShown = TRUE
  /\ session = 0
  /\ resets = 0
  /\ lastHandler = "none"

SpawnNext == SpawnTick \/ GameLoop

SpawnSpec == SpawnInit /\ [][SpawnNext]_vars

\* The kinds of wave w as the bands give them.
KindsOfWave(w) ==
  IF w % 5 = 0 THEN {"boss", "strong"}
  ELSE IF w <= 2 THEN {"basic"}
  ELSE IF w \in 3..4 THEN {"basic", "fast"}
  ELSE IF w \in 6..7 THEN {"basic", "fast", "strong"}
  ELSE {"basic", "fast", "strong", "boss"}

\* C29: the kinds the schedule of wave w can spawn are boss and strong when w
\* is divisible by 5, otherwise basic up to wave 2, basic and fast in waves
\* 3..4, basic, fast and strong in waves 6..7, and all four from wave 8; no
\* fast enemy is spawned before wave 3 and no boss before wave 5.
C29_KindsOfWave ==
  [][ (lastHandler' = "timer" /\ Len(gameState'.enemies) = Len(gameState.enemies) + 1)
        => LET w == gameState.wave
               spawned == gameState'.enemies[Len(gameState'.enemies)]
           IN /\ spawned.type \in KindsOfWave(w)
              /\ selectEnemyTypeForWave(w) = KindsOfWave(w)
              /\ spawned.type = "fast" => w >= 3
              /\ spawned.type = "boss" => w >= 5 ]_vars

\* A boss spawned by the schedule of a wave divisible by 5, in a wave below 8.
C29_Witness ==
  /\ lastHandler = "timer"
  /\ gameState.wave = 5
  /\ \E k \in 1..Len(gameState.enemies) :
        /\ gameState.enemies[k].type = "boss"
        /\ gameState.enemies[k].pathIndex = 0
        /\ gameState.enemies[k].progress = 0

\* C30: an enemy of kind k spawned in wave w starts at path[0] with pathIndex 0
\* and progress 0, with health = maxHealth = floor(baseHealth(k) *
\* difficultyFactor(w)), reward = ceil(baseReward(k) * (1 + (w - 1) * 0.1)) and
\* the base speed of k, w being the wave whose schedule spawned it.
C30_SpawnedEnemyStats ==
  [][ (lastHandler' = "timer" /\ Len(gameState'.enemies) = Len(gameState.enemies) + 1)
        => LET w == gameState.wave
               spawned == gameState'.enemies[Len(gameState'.enemies)]
               base == enemyTypes[spawned.type]
           IN /\ spawned.x = path[1].x * U
              /\ spawned.y = path[1].y * U
              /\ spawned.pathIndex = 0
              /\ spawned.progress = 0
              /\ spawned.health = spawned.maxHealth
              /\ spawned.health = (base.health * calculateWaveDifficulty(w)) \div 100
              /\ spawned.reward = (base.reward * (10 + (w - 1)) + 9) \div 10
              /\ spawned.speed = base.speed ]_vars

(***************************************************************************)
(* The effect ledger: gameState.effects, filled by the creation sites of   *)
(* the handlers and aged by updateEffects once per frame.  Lifetimes are   *)
(* in tenths of an aging step (two sites draw a fractional lifetime from   *)
(* Math.random()); alpha is in hundredths.  born and aged are ghosts: the  *)
(* lifetime the effect was created with and the aging steps it has seen.   *)
(***************************************************************************)
EffectCap == 2

\* The lifetimes of the creation sites: createFloatingText 60; placement 30;
\* breach 60; sniper trail 5 and impact 15; bomber launch smoke
\* 10 + Math.random() * 10; projectile impact 10; splash 15; explosion 20 and
\* its flash 5; debris 15 + Math.random() * 15; defeat 20.
EffectSites ==
  { [type |-> "text", lifetime |-> 60 * U, alpha |-> 100],
    [type |-> "particle", lifetime |-> 30 * U, alpha |-> 100],
    [type |-> "particle", lifetime |-> 5 * U, alpha |-> 70],
    [type |-> "particle", lifetime |-> 15 * U, alpha |-> 100],
    [type |-> "particle", lifetime |-> 10 * U, alpha |-> 70],
    [type |-> "particle", lifetime |-> 10 * U + 37, alpha |-> 70],
    [type |-> "particle", lifetime |-> 10 * U + 99, alpha |-> 70],
    [type |-> "explosion", lifetime |-> 20 * U, alpha |-> 70],
    [type |-> "particle", lifetime |-> 15 * U + 75, alpha |-> 80],
    [type |-> "particle", lifetime |-> 20 * U, alpha |-> 100] }

\* gameState.effects.push({...})
pushEffect(gs, site) ==
  [gs EXCEPT !.effects =
     Append(@, [type |-> site.type, lifetime |-> site.lifetime,
                alpha |-> site.alpha, born |-> site.lifetime, aged |-> 0])]

\* One iteration of the loop of updateEffects for an effect that stays.
AgeEffect(effect) ==
  [effect EXCEPT !.lifetime = @ - U, !.alpha = Max(0, @ - 2), !.aged = @ + 1]

\* Fault variant: an effect is removed only when its lifetime is below 0.
EffectsLoopKeepsZero(effects, i) ==
  LET F[k \in 0..Len(effects)] ==
        IF k = 0 THEN effects
        ELSE LET rest == F[k - 1]
                 at == Len(effects) - k + 1
             IN IF rest[at].lifetime - U < 0
                THEN RemoveAt(rest, at)
                ELSE [rest EXCEPT ![at] = AgeEffect(@)]
  IN F[i]

\* The loop of updateEffects after i iterations, from the last index down.
EffectsLoop(effects, i) ==
  LET F[k \in 0..Len(effects)] ==
        IF k = 0 THEN effects
        ELSE LET rest == F[k - 1]
                 at == Len(effects) - k + 1
             IN IF rest[at].lifetime - U <= 0
                THEN RemoveAt(rest, at)
                ELSE [rest EXCEPT ![at] = AgeEffect(@)]
  IN F[i]

\* updateEffects()
updateEffects(gs) ==
  [gs EXCEPT !.effects = EffectsLoop(@, Len(@))]

EffectInit ==
  /\ gameState = ("effects" :> << >>) @@
                 [InitialGameState EXCEPT !.isPlaying = TRUE, !.gameScreen = "game"]
  /\ prepIntervals = << >>
  /\ bonusTimeouts = << >>
  /\ countdownIntervals = << >>
  /\ uiContainerShown = TRUE
  /\ session = 0
  /\ resets = 0
  /\ lastHandler = "none"

\* A creation site runs.
EffectPush ==
  /\ Len(gameState.effects) < EffectCap
  /\ \E site \in EffectSites : gameState' = pushEffect(gameState, site)
  /\ lastHandler' = "input"
  /\ UNCHANGED << prepIntervals, bonusTimeouts, countdownIntervals,
                  uiContainerShown, session, resets >>

\* The effect step of a frame.
EffectStep ==
  /\ gameState' = updateEffects(gameState)
  /\ lastHandler' = "gameLoop"
  /\ UNCHANGED << prepIntervals, bonusTimeouts, countdownIntervals,
                  uiContainerShown, session, resets >>

EffectNext == EffectPush \/ EffectStep

EffectSpec == EffectInit /\ [][EffectNext]_vars

\* The effects of a ledger that one aging step removes, as indices.
Expiring(effects) == {k \in 1..Len(effects) : effects[k].lifetime - U <= 0}

\* The aging part of C31: one step takes exactly 1 from every lifetime and
\* removes exactly the effects whose lifetime is then <= 0, keeping the order of
\* the others; after the step every lifetime is > 0.
AgingStepExact ==
  LET before == gameState.effects
      after == gameState'.effects
      kept == SelectSeq(before, LAMBDA e : e.lifetime - U > 0)
  IN lastHandler' = "gameLoop"
       => /\ Len(after) = Len(kept)
          /\ \A k \in 1..Len(after) :
                /\ after[k].lifetime = kept[k].lifetime - U
                /\ after[k].born = kept[k].born
                /\ after[k].lifetime > 0

Placed(tower) ==
  << tower.x, tower.y, tower.type, tower.cost, tower.damage, tower.range,
     tower.fireRate >>

\* C32: frames, timer firings, selections, rejected placements and game over
\* neither remove a tower nor change a placed tower's position, kind, cost,
\* damage, range or fire rate; the tower list grows only by a successful
\* placement (one tower, at the end) and is emptied only by resetGame.
C32_TowersStayPlaced ==
  [][ LET old == gameState.towers
          new == gameState'.towers
          Same(n) == \A k \in 1..n : Placed(new[k]) = Placed(old[k])
      IN IF resets' # resets
         THEN new = << >>
         ELSE IF lastHandler' = "click"
         THEN /\ Len(new) \in {Len(old), Len(old) + 1}
              /\ Same(Len(old))
         ELSE /\ Len(new) = Len(old)
              /\ Same(Len(old)) ]_vars

\* A frame has ended the session by a breach and the placed tower is still in
\* the list.
C32_Witness ==
  /\ lastHandler = "gameLoop"
  /\ ~gameState.isPlaying
  /\ gameState.lives <= 0
  /\ Len(gameState.towers) = 1

(***************************************************************************)
(* A projectile in flight on the route as drawn: a tower at (640, 480),    *)
(* below the corner (600, 400) of the route, has fired at an enemy near    *)
(* that corner.  The target is live at one of FlightTargets, (600, 120)    *)
(* being where updateEnemies puts an enemy in the frame in which it leaves *)
(* the segment (600, 120)-(600, 400), or it has been removed and the       *)
(* projectile keeps that place as its aim point.  The step is              *)
(* updateProjectiles; a projectile with a removed target flies on frame    *)
(* after frame.                                                            *)
(***************************************************************************)
FlightClick == [x |-> 650, y |-> 490]

FlightTargets ==
  { [x |-> 600, y |-> 120], [x |-> 600, y |-> 300], [x |-> 600, y |-> 399],
    [x |-> 650, y |-> 400] }

FlightOrigins ==
  { [x |-> 631, y |-> 462], [x |-> 620, y |-> 440], [x |-> 608, y |-> 412] }

FlightInit ==
  /\ \E kind \in {"basic", "bomber"}, aim \in FlightTargets,
        origin \in FlightOrigins, live \in BOOLEAN :
        LET g0 == [InitialGameState EXCEPT
                     !.isPlaying = TRUE, !.wave = CombatWave, !.money = 500,
                     !.gameScreen = "game", !.preparationPhase = FALSE,
                     !.preparationTimer = 0, !.waveStarted = TRUE,
                     !.difficultyFactor = calculateWaveDifficulty(CombatWave)]
            g1 == handleCanvasClick(selectTower(updateUI(g0), kind),
                                    FlightClick.x, FlightClick.y)
            enemy == BlastEnemy(g1, 1, "basic", aim, 1000)
            proj == [NewProjectile(g1.towers[1], enemy) EXCEPT
                       !.x = origin.x * U, !.y = origin.y * U]
        IN gameState = [g1 EXCEPT !.enemies = IF live THEN << enemy >> ELSE << >>,
                                  !.projectiles = << proj >>]
  /\ prepIntervals = << >>
  /\ bonusTimeouts = << >>
  /\ countdownIntervals = << >>
  /\ uiContainerShown = TRUE
  /\ session = 0
  /\ resets = 0
  /\ lastHandler = "none"

FlightStep ==
  /\ Len(gameState.projectiles) > 0
  /\ lastHandler = "none" \/ gameState.enemies = << >>
  /\ gameState' = updateProjectiles([gameState EXCEPT !.hitLog = << >>,
                                                      !.defeatLog = << >>,
                                                      !.tickLog = << >>])
  /\ lastHandler' = "gameLoop"
  /\ UNCHANGED << prepIntervals, bonusTimeouts, countdownIntervals,
                  uiContainerShown, session, resets >>

FlightNext == FlightStep

FlightSpec == FlightInit /\ [][FlightNext]_vars

\* The step length with the distance capped at 300:
\* speed * (1 + 0.1 * (1 - min(distance, 300) / 300)).
ProjectileStepCapped(speed, distance) ==
  speed * U + (speed * U * (300 * U - Min(distance, 300 * U))) \div (10 * 300 * U)

\* The aim point of the first projectile in this step: the position of its
\* target if live, else the aim point it holds.
AimOf(gs) ==
  LET proj == gs.projectiles[1]
      e == IndexOf(gs, proj.target)
  IN IF e # 0 THEN [x |-> gs.enemies[e].x, y |-> gs.enemies[e].y]
     ELSE [x |-> proj.targetX, y |-> proj.targetY]

\* C33: a projectile that does not impact in this step moves toward its aim
\* point by speed * (1 + 0.1 * (1 - min(distance, 300) / 300)); the step length
\* is never below its base speed and never above 1.1 times it, at every
\* distance, beyond 300 too.
C33_StepWithinSpeedBand ==
  [][ (lastHandler' = "gameLoop" /\ Len(gameState.projectiles) = 1
         /\ Len(gameState'.projectiles) = 1)
        => LET proj == gameState.projectiles[1]
               moved == gameState'.projectiles[1]
               aim == AimOf(gameState)
               dx == aim.x - proj.x
               dy == aim.y - proj.y
               distance == Sqrt(dx * dx + dy * dy)
               step == ProjectileStepCapped(proj.speed, distance)
           IN /\ moved.x = proj.x + Quot(dx * step, distance)
              /\ moved.y = proj.y + Quot(dy * step, distance)
              /\ ProjectileStep(proj.speed, distance) >= proj.speed * U
              /\ ProjectileStep(proj.speed, distance) * 10 <= proj.speed * U * 11 ]_vars

\* C34: selectTower(kind) makes kind the pending selection only if the wave has
\* reached the kind's unlockWave and the money covers its cost; otherwise the
\* pending selection (a kind selected before stays selected), the money and the
\* towers are as they were.  A selection step changes nothing else.
C34_SelectionOnlyIfAvailable ==
  [][ LET gs == gameState
          Available(kind) == /\ gs.wave >= towerTypes[kind].unlockWave
                             /\ gs.money >= towerTypes[kind].cost
      IN /\ \A kind \in TowerKinds :
               selectTower(gs, kind) =
                 IF Available(kind) THEN [gs EXCEPT !.selectedTower = kind] ELSE gs
         /\ (lastHandler' = "input" /\ prepIntervals' = prepIntervals /\ resets' = resets)
              => /\ gameState' = [gs EXCEPT !.selectedTower = gameState'.selectedTower]
                 /\ gameState'.selectedTower # gs.selectedTower
                      => /\ gameState'.selectedTower \in TowerKinds
                         /\ Available(gameState'.selectedTower) ]_vars

\* The cannon has been selected in wave 2, where it is unlocked, with the money
\* that pays for it.
C34_Witness ==
  /\ lastHandler = "input"
  /\ gameState.selectedTower = "cannon"
  /\ gameState.wave = 2
  /\ gameState.money >= towerTypes["cannon"].cost
  /\ gameState.money < towerTypes["magic"].cost

(***************************************************************************)
(* The field: a running session with money for several towers, in which    *)
(* the player selects kinds and clicks the canvas.                         *)
(***************************************************************************)
FieldTowers == 3

\* Clicks next to the route, in a free cell, twice in one cell, in the cells
\* beside and below it, off the playable area and in the last cell of the
\* canvas.
FieldClicks ==
  { [x |-> 45,  y |-> 50],  [x |-> 90,  y |-> 50],  [x |-> 100, y |-> 70],
    [x |-> 130, y |-> 50],  [x |-> 90,  y |-> 90],  [x |-> 10,  y |-> 100],
    [x |-> 799, y |-> 599] }

FieldInit ==
  /\ gameState = updateUI([InitialGameState EXCEPT
                             !.isPlaying = TRUE, !.wave = CombatWave, !.money = 500,
                             !.gameScreen = "game", !.preparationPhase = FALSE,
                             !.preparationTimer = 0, !.waveStarted = TRUE,
                             !.difficultyFactor = calculateWaveDifficulty(CombatWave)])
  /\ prepIntervals = << >>
  /\ bonusTimeouts = << >>
  /\ countdownIntervals = << >>
  /\ uiContainerShown = TRUE
  /\ session = 0
  /\ resets = 0
  /\ lastHandler = "none"

FieldClick ==
  \E c \in FieldClicks :
    /\ gameState' = handleCanvasClick(gameState, c.x, c.y)
    /\ Len(gameState'.towers) <= FieldTowers
    /\ lastHandler' = "click"
    /\ UNCHANGED << prepIntervals, bonusTimeouts, countdownIntervals,
                    uiContainerShown, session, resets >>

FieldNext == SelectTower \/ FieldClick

FieldSpec == FieldInit /\ [][FieldNext]_vars

\* C35: any two distinct towers differ by at least gridSize in x or in y, every
\* tower lies within 20 <= x <= width - 20 and 20 <= y <= height - 20, and no
\* tower is within 30 units of a sampled point of the path.
C35_TowersKeepClearances ==
  LET towers == gameState.towers
  IN /\ \A j, k \in 1..Len(towers) :
           j # k => \/ Abs(towers[j].x - towers[k].x) >= gridSize
                    \/ Abs(towers[j].y - towers[k].y) >= gridSize
     /\ \A k \in 1..Len(towers) :
           /\ 20 <= towers[k].x /\ towers[k].x <= canvasWidth - 20
           /\ 20 <= towers[k].y /\ towers[k].y <= canvasHeight - 20
           /\ \A p \in PathSamples :
                 (p.x - towers[k].x * U) * (p.x - towers[k].x * U)
                   + (p.y - towers[k].y * U) * (p.y - towers[k].y * U)
                     >= (30 * U) * (30 * U)

\* Three towers stand on the field, two of them in neighbouring cells, after
\* a click.
C35_Witness ==
  /\ lastHandler = "click"
  /\ Len(gameState.towers) = FieldTowers
  /\ \E j, k \in 1..Len(gameState.towers) :
        /\ gameState.towers[j].x - gameState.towers[k].x = gridSize
        /\ gameState.towers[j].y = gameState.towers[k].y

\* The game-over state: gameOver has cleared isPlaying and no reset has left
\* the game screen yet.
InGameOver == ~gameState.isPlaying /\ gameState.gameScreen = "game"

C37_OneTimerOfEachKind ==
  /\ Len(prepIntervals) <= 1
  /\ Len(countdownIntervals) <= 1
  /\ Len(bonusTimeouts) <= 1

(***************************************************************************)
(* A session without reset under fair scheduling: the browser keeps        *)
(* running animation frames and keeps firing every interval and timeout    *)
(* that is pending.                                                        *)
(***************************************************************************)
FairNext ==
  \/ StartGame
  \/ PrepTick
  \/ SelectTower
  \/ HandleCanvasClick
  \/ SpawnTick
  \/ BonusFire
  \/ CountdownTick
  \/ GameLoop

\* ENABLED <<GameLoop>>_vars as a state predicate: update() runs and the frame
\* changes the state.
FrameEnabled ==
  /\ gameState.gameScreen = "game"
  /\ gameState.isPlaying
  /\ \/ lastHandler # "gameLoop"
     \/ CompletionDue(gameState)
     \/ \E crits \in SUBSET Snipers(gameState) :
           update(AgeStamps([gameState EXCEPT !.defeatLog = << >>, !.hitLog = << >>,
                                              !.tickLog = << >>]),
                  Epoch, crits) # gameState

\* Weak fairness of every timer callback and of the frame; the last conjunct
\* is WF_vars(GameLoop) with its ENABLED written out as FrameEnabled.
FairSpec ==
  /\ Init
  /\ [][FairNext]_vars
  /\ WF_vars(PrepTick)
  /\ WF_vars(SpawnTick)
  /\ WF_vars(BonusFire)
  /\ WF_vars(CountdownTick)
  /\ ([]<>(~FrameEnabled) \/ []<><<GameLoop>>_vars)

\* C38: under fair scheduling of frames and timer firings and with no reset,
\* every wave that has started is eventually followed by the spawn schedule of
\* the next wave (having been marked completed; for the last wave of the model,
\* MaxWave, eventually marked completed), or the session reaches game over: a
\* started wave does not stay forever with live enemies or a pending schedule.
C38_StartedWaveEnds ==
  \A w \in 1..MaxWave :
    (gameState.isPlaying /\ gameState.waveStarted /\ gameState.wave = w)
      ~> \/ InGameOver
         \/ gameState.wave > w /\ gameState.enemySpawnInterval.active
         \/ w = MaxWave /\ gameState.wave = w /\ gameState.waveCompleted
              /\ gameState.enemies = << >> /\ ~gameState.enemySpawnInterval.active

\* The schedule of wave 2 runs in a session in which wave 1 was completed
\* without a breach.
C38_Witness ==
  /\ gameState.wave = 2
  /\ gameState.isPlaying
  /\ gameState.lives = 1
  /\ gameState.enemySpawnInterval.active
  /\ gameState.enemySpawnInterval.enemiesSpawned > 0
  /\ resets = 0

(***************************************************************************)
(* The combat scene under continued ticking: the frame runs as long as     *)
(* update() is not switched off by game over and changes the state.        *)
(***************************************************************************)
FairCombatSpec ==
  /\ CombatInit
  /\ [][CombatNext]_vars
  /\ ([]<>(~FrameEnabled) \/ []<><<GameLoop>>_vars)

\* A projectile of the list has a target that is no longer live.
StaleInFlight ==
  \E k \in 1..Len(gameState.projectiles) :
     IndexOf(gameState, gameState.projectiles[k].target) = 0

\* C39: under continued ticking, that is unless the session reaches game over,
\* where ticking stops, every projectile is eventually removed from the list,
\* whether its target stays live or has been removed by a defeat or a breach:
\* the list becomes empty again, and a projectile whose target is gone does not
\* stay in flight.
C39_ProjectilesLand ==
  /\ (gameState.projectiles # << >>) ~> (gameState.projectiles = << >> \/ InGameOver)
  /\ StaleInFlight ~> (~StaleInFlight \/ InGameOver)

\* Every enemy of the scene has been defeated and the session goes on: the
\* projectiles that the basic and bomber towers fired (each holds the target it
\* fired at) have all left the list, those whose target was defeated by
\* another hit included.
C39_Witness ==
  /\ lastHandler = "gameLoop"
  /\ gameState.isPlaying
  /\ gameState.enemies = << >>
  /\ gameState.projectiles = << >>
  /\ CountOf(gameState.towers,
             LAMBDA t : t.type # "sniper" /\ t.target # NoTarget) >= 2

====
